---- MODULE Spec2Model ----
(***************************************************************************)
(* taskery-api: the task and user domain entities, their value objects,    *)
(* and the TaskService / UserService application services running against  *)
(* the PostgreSQL repositories.                                            *)
(*                                                                         *)
(* Strings are sequences of code points.  A time.Time is a natural number  *)
(* of clock ticks.  A Go pointer that may be nil (a time or a Deadline)     *)
(* is a sequence of length 0 (nil) or 1.  An error is the chain that       *)
(* errors.Is walks: a sequence of sentinel names, <<>> being nil.          *)
(***************************************************************************)
EXTENDS Integers, Sequences, FiniteSets, TLC

VARIABLES
    now,        \* the wall clock read by time.Now()
    ent,        \* TaskEntitySpec: the *models.Task held by the caller (<<>> none)
    entPrev,    \* TaskEntitySpec: the entity before the last method call
    entCall,    \* TaskEntitySpec: the last constructor / method call and its error
    tasks,      \* the rows of table tasks, by id
    nextTid,    \* ids uuid.New() has handed out for tasks so far
    dueLater,   \* the ids of the tasks Create stored with a deadline after
                \* the clock of that call
    tproc,      \* TaskService calls in flight, per request
    tlast,      \* the TaskService call that returned in the latest step
    users,      \* the rows of table users, by id
    nextUid,    \* ids uuid.New() has handed out for users so far
    uproc,      \* UserService calls in flight, per request
    ulast,      \* the UserService call of r1 that returned in the latest step
    registered, \* the emails Register has stored a user with so far
    passwordChanged, \* per id of a user stored, the old and new password
                \* of the latest ChangePassword that returned nil, if they
                \* differ (<<>> otherwise)
    deleted,    \* the ids of the users a Delete that returned nil removed,
                \* and their emails not stored again since
    served,     \* HandlerSpec: the request served last (<<>> none)
    logins      \* HandlerSpec: the last two logins the service was called
                \* for, the newest first

vars == <<now, ent, entPrev, entCall,
          tasks, nextTid, dueLater, tproc, tlast,
          users, nextUid, uproc, ulast, registered, passwordChanged, deleted,
          served, logins>>
entVars == <<ent, entPrev, entCall>>
taskVars == <<tasks, nextTid, dueLater, tproc, tlast>>
userVars ==
    <<users, nextUid, uproc, ulast, registered, passwordChanged, deleted>>
httpVars == <<served, logins>>

---------------------------------------------------------------------------
(* Bounds of the model. *)

\* the clock runs from 0 to MaxTime
MaxTime == 2
\* at most this many users are ever created
MaxUsers == 2

Times == 0..MaxTime
Procs == {"r1", "r2"}

---------------------------------------------------------------------------
(* Strings. *)

Rep(c, n) == [i \in 1..n |-> c]

IsSpace(c) == c \in {9, 10, 11, 12, 13, 32, 133, 160}

RECURSIVE TrimLeft(_)
TrimLeft(s) ==
    IF s = <<>> THEN <<>>
    ELSE IF IsSpace(Head(s)) THEN TrimLeft(Tail(s))
    ELSE s

RECURSIVE TrimRight(_)
TrimRight(s) ==
    IF s = <<>> THEN <<>>
    ELSE IF IsSpace(s[Len(s)]) THEN TrimRight(SubSeq(s, 1, Len(s) - 1))
    ELSE s

\* strings.TrimSpace
TrimSpace(s) == TrimRight(TrimLeft(s))

---------------------------------------------------------------------------
(* Errors. *)

NoErr == <<>>
Sentinel(name) == <<name>>

\* errors.Is(err, target) for a sentinel target
ErrorsIs(err, name) == \E i \in 1..Len(err) : err[i] = name

\* a wrapping that kept the cause on the chain would be "%w: %w"
WrapFailedKeepsCause(name, err) == <<name>> \o err

\* fmt.Errorf("%w: %s", sentinel, err): only the sentinel is wrapped, the
\* cause is formatted into the message text
WrapFailed(name, err) == <<name>>

\* fmt.Errorf("%s: ...: %w", op, err): the cause stays on the chain
WrapCause(err) == <<"*fmt.wrapError">> \o err

\* a failure of database/sql or the driver
DBError == <<"*pq.Error">>

---------------------------------------------------------------------------
(* Value objects of a task. *)

TitleMaxLength == 50
DescriptionMaxLength == 1000

\* vo.NewTitle
NewTitle(value) ==
    LET v == TrimSpace(value) IN
    IF v = <<>> THEN [err |-> Sentinel("ErrTitleEmpty"), val |-> <<>>]
    ELSE IF Len(v) > TitleMaxLength
         THEN [err |-> Sentinel("ErrTitleTooLong"), val |-> <<>>]
    ELSE [err |-> NoErr, val |-> v]

\* vo.NewDescription
NewDescription(value) ==
    IF Len(value) > DescriptionMaxLength
    THEN [err |-> Sentinel("ErrDescriptionTooLong"), val |-> <<>>]
    ELSE [err |-> NoErr, val |-> value]

\* vo.NewDeadline: value.Before(time.Now()) rejects
NewDeadline(value, t) ==
    IF value < t
    THEN [err |-> Sentinel("ErrDeadlineBeforeNow"), val |-> 0]
    ELSE [err |-> NoErr, val |-> value]

---------------------------------------------------------------------------
(* The Task entity. *)

\* &Task{...}
MkTask(id, owner, title, description, deadline, isCompleted, completedAt) ==
    [id |-> id, owner |-> owner, title |-> title, description |-> description,
     deadline |-> deadline, isCompleted |-> isCompleted,
     completedAt |-> completedAt]

\* models.NewTask; id is the value uuid.New() returns
NewTask(title, description, owner, id) ==
    LET titleVO == NewTitle(title)
        descriptionVO == NewDescription(description) IN
    IF titleVO.err # NoErr THEN [err |-> titleVO.err, task |-> <<>>]
    ELSE IF descriptionVO.err # NoErr
         THEN [err |-> descriptionVO.err, task |-> <<>>]
    ELSE [err |-> NoErr,
          task |-> <<MkTask(id, owner, titleVO.val, descriptionVO.val,
                            <<>>, FALSE, <<>>)>>]

\* models.NewTaskWithDeadline
NewTaskWithDeadline(title, description, owner, deadline, id, t) ==
    LET made == NewTask(title, description, owner, id)
        deadlineVO == NewDeadline(deadline, t) IN
    IF made.err # NoErr THEN made
    ELSE IF deadlineVO.err # NoErr THEN [err |-> deadlineVO.err, task |-> <<>>]
    ELSE [err |-> NoErr,
          task |-> <<[made.task[1] EXCEPT !.deadline = <<deadlineVO.val>>]>>]

\* a NewTaskFromDB that refuses only a completed row without completedAt
NewTaskFromDBOneSided(p, t) ==
    LET titleVO == NewTitle(p.title)
        descriptionVO == NewDescription(p.description)
        deadlineVO == NewDeadline(p.deadline[1], t) IN
    IF p.isCompleted /\ p.completedAt = <<>>
    THEN [err |-> Sentinel("ErrTaskFailedCreateFromDB"), task |-> <<>>]
    ELSE IF titleVO.err # NoErr THEN [err |-> titleVO.err, task |-> <<>>]
    ELSE IF descriptionVO.err # NoErr
         THEN [err |-> descriptionVO.err, task |-> <<>>]
    ELSE IF p.deadline # <<>> /\ deadlineVO.err # NoErr
         THEN [err |-> deadlineVO.err, task |-> <<>>]
    ELSE [err |-> NoErr,
          task |-> <<MkTask(p.id, p.owner, titleVO.val, descriptionVO.val,
                            IF p.deadline # <<>> THEN <<deadlineVO.val>>
                            ELSE <<>>,
                            p.isCompleted, p.completedAt)>>]

\* models.NewTaskFromDB; p is a TaskFromDBParams
NewTaskFromDB(p, t) ==
    LET titleVO == NewTitle(p.title)
        descriptionVO == NewDescription(p.description)
        deadlineVO == NewDeadline(p.deadline[1], t) IN
    IF (p.isCompleted /\ p.completedAt = <<>>)
       \/ (~p.isCompleted /\ p.completedAt # <<>>)
    THEN [err |-> Sentinel("ErrTaskFailedCreateFromDB"), task |-> <<>>]
    ELSE IF titleVO.err # NoErr THEN [err |-> titleVO.err, task |-> <<>>]
    ELSE IF descriptionVO.err # NoErr
         THEN [err |-> descriptionVO.err, task |-> <<>>]
    ELSE IF p.deadline # <<>> /\ deadlineVO.err # NoErr
         THEN [err |-> deadlineVO.err, task |-> <<>>]
    ELSE [err |-> NoErr,
          task |-> <<MkTask(p.id, p.owner, titleVO.val, descriptionVO.val,
                            IF p.deadline # <<>> THEN <<deadlineVO.val>>
                            ELSE <<>>,
                            p.isCompleted, p.completedAt)>>]

\* Task.ChangeTitle
TaskChangeTitle(task, newTitle) ==
    LET newTitleVO == NewTitle(newTitle) IN
    IF newTitleVO.err # NoErr THEN [err |-> newTitleVO.err, task |-> task]
    ELSE [err |-> NoErr, task |-> [task EXCEPT !.title = newTitleVO.val]]

\* Task.ChangeDescription
TaskChangeDescription(task, newDescription) ==
    LET newDescriptionVO == NewDescription(newDescription) IN
    IF newDescriptionVO.err # NoErr
    THEN [err |-> newDescriptionVO.err, task |-> task]
    ELSE [err |-> NoErr,
          task |-> [task EXCEPT !.description = newDescriptionVO.val]]

\* Task.SetDeadline
TaskSetDeadline(task, deadline, t) ==
    LET deadlineVO == NewDeadline(deadline, t) IN
    IF deadlineVO.err # NoErr THEN [err |-> deadlineVO.err, task |-> task]
    ELSE [err |-> NoErr, task |-> [task EXCEPT !.deadline = <<deadlineVO.val>>]]

\* a RemoveDeadline that reopened the task as well
TaskRemoveDeadlineReopens(task) ==
    [task EXCEPT !.deadline = <<>>, !.isCompleted = FALSE,
                 !.completedAt = <<>>]

\* Task.RemoveDeadline
TaskRemoveDeadline(task) == [task EXCEPT !.deadline = <<>>]

\* Task.Complete without its guard: every call records the time anew
TaskCompleteOverwrites(task, t) ==
    [task EXCEPT !.isCompleted = TRUE, !.completedAt = <<t>>]

\* Task.Complete
TaskComplete(task, t) ==
    IF ~task.isCompleted
    THEN [task EXCEPT !.isCompleted = TRUE, !.completedAt = <<t>>]
    ELSE task

\* Task.Reopen forgetting the timestamp
TaskReopenKeepsCompletedAt(task) == [task EXCEPT !.isCompleted = FALSE]

\* a Task.Reopen that also forgets the deadline
TaskReopenDropsDeadline(task) ==
    [task EXCEPT !.isCompleted = FALSE, !.completedAt = <<>>,
                 !.deadline = <<>>]

\* Task.Reopen
TaskReopen(task) == [task EXCEPT !.isCompleted = FALSE, !.completedAt = <<>>]

\* Deadline.IsOverdue
DeadlineIsOverdue(value, t) == value < t

\* an IsOverdue that left completion out
TaskIsOverdueWhenCompleted(task, t) ==
    IF task.deadline = <<>> THEN FALSE
    ELSE DeadlineIsOverdue(task.deadline[1], t)

\* Task.IsOverdue
TaskIsOverdue(task, t) ==
    IF task.deadline = <<>> THEN FALSE
    ELSE DeadlineIsOverdue(task.deadline[1], t) /\ ~task.isCompleted

\* Task.IsCompleted, Task.CompletedAt
IsCompleted(task) == task.isCompleted
CompletedAt(task) == task.completedAt

---------------------------------------------------------------------------
(* Inputs the callers send. *)

TitleA == <<97>>
TitleBPadded == <<32, 98, 32>>
TitleEmpty == <<>>
TitleBlank == <<32, 9>>
TitleTooLong == Rep(120, TitleMaxLength + 1)
TitleInputs == {TitleA, TitleBPadded, TitleEmpty, TitleBlank, TitleTooLong}

DescriptionEmpty == <<>>
DescriptionD == <<100>>
DescriptionTooLong == Rep(120, DescriptionMaxLength + 1)
DescriptionInputs == {DescriptionEmpty, DescriptionD, DescriptionTooLong}

Owners == {"u1", "u2"}
OptTimes == {<<>>} \cup {<<t>> : t \in Times}

\* the rows a caller of NewTaskFromDB may hand over
TaskFromDBParams ==
    [id : {1}, owner : {"u1"}, title : {TitleA, TitleEmpty},
     description : {DescriptionEmpty}, deadline : OptTimes,
     isCompleted : BOOLEAN, completedAt : OptTimes]

---------------------------------------------------------------------------
(* TaskEntitySpec: one caller holding one Task and calling its methods. *)

\* the last call: the constructor or method, the error it returned, the
\* clock at the call, the deadline SetDeadline was given (arg), whether a
\* constructor returned a nil task, and of the row handed
\* to NewTaskFromDB whether isCompleted and completedAt contradict each
\* other and whether such a row has another field a value object rejects
NoCall ==
    [op |-> "none", err |-> NoErr, at |-> 0, arg |-> <<>>,
     nilTask |-> FALSE, contradict |-> FALSE, rejected |-> FALSE]

\* isCompleted and completedAt of a TaskFromDBParams contradict each other
Contradict(p) == p.isCompleted # (p.completedAt # <<>>)

\* a value object rejects the title, description or deadline of p
Rejected(p, t) ==
    \/ NewTitle(p.title).err # NoErr
    \/ NewDescription(p.description).err # NoErr
    \/ p.deadline # <<>> /\ NewDeadline(p.deadline[1], t).err # NoErr

EntInit ==
    /\ ent = <<>>
    /\ entPrev = <<>>
    /\ entCall = NoCall

\* the caller keeps the task a constructor returns, and what it held on error
Constructed(op, res) ==
    /\ ent' = IF res.err = NoErr THEN res.task ELSE ent
    /\ entPrev' = ent
    /\ entCall' = [NoCall EXCEPT !.op = op, !.err = res.err, !.at = now,
                                 !.nilTask = res.task = <<>>]
    /\ UNCHANGED <<now, taskVars, userVars, httpVars>>

EntNewTask ==
    \E title \in TitleInputs, description \in DescriptionInputs :
        Constructed("NewTask", NewTask(title, description, "u1", 1))

EntNewTaskWithDeadline ==
    \E title \in {TitleA, TitleEmpty}, deadline \in Times :
        Constructed("NewTaskWithDeadline",
                    NewTaskWithDeadline(title, DescriptionEmpty, "u2",
                                        deadline, 2, now))

EntNewTaskFromDB ==
    \E p \in TaskFromDBParams :
        LET res == NewTaskFromDB(p, now) IN
        \* a completion time read back from a row was the clock at a Complete
        /\ p.completedAt # <<>> => p.completedAt[1] <= now
        /\ ent' = IF res.err = NoErr THEN res.task ELSE ent
        /\ entPrev' = ent
        /\ entCall' = [NoCall EXCEPT
                          !.op = "NewTaskFromDB", !.err = res.err,
                          !.at = now, !.nilTask = res.task = <<>>,
                          !.contradict = Contradict(p),
                          !.rejected = (Contradict(p) /\ Rejected(p, now))]
        /\ UNCHANGED <<now, taskVars, userVars, httpVars>>

\* a method call on the task held
Called(op, err, task) ==
    /\ ent' = <<task>>
    /\ entPrev' = ent
    /\ entCall' = [NoCall EXCEPT !.op = op, !.err = err, !.at = now]
    /\ UNCHANGED <<now, taskVars, userVars, httpVars>>

EntChangeTitle ==
    /\ ent # <<>>
    /\ \E newTitle \in TitleInputs :
        LET res == TaskChangeTitle(ent[1], newTitle) IN
        Called("ChangeTitle", res.err, res.task)

EntChangeDescription ==
    /\ ent # <<>>
    /\ \E newDescription \in DescriptionInputs :
        LET res == TaskChangeDescription(ent[1], newDescription) IN
        Called("ChangeDescription", res.err, res.task)

EntSetDeadline ==
    /\ ent # <<>>
    /\ \E deadline \in Times :
        LET res == TaskSetDeadline(ent[1], deadline, now) IN
        /\ ent' = <<res.task>>
        /\ entPrev' = ent
        /\ entCall' = [NoCall EXCEPT !.op = "SetDeadline", !.err = res.err,
                                     !.at = now, !.arg = <<deadline>>]
        /\ UNCHANGED <<now, taskVars, userVars, httpVars>>

EntRemoveDeadline ==
    /\ ent # <<>>
    /\ Called("RemoveDeadline", NoErr, TaskRemoveDeadline(ent[1]))

EntComplete ==
    /\ ent # <<>>
    /\ Called("Complete", NoErr, TaskComplete(ent[1], now))

EntReopen ==
    /\ ent # <<>>
    /\ Called("Reopen", NoErr, TaskReopen(ent[1]))

\* time passes
Tick ==
    /\ now < MaxTime
    /\ now' = now + 1
    /\ UNCHANGED <<entVars, taskVars, userVars, httpVars>>

EntNext ==
    \/ EntNewTask
    \/ EntNewTaskWithDeadline
    \/ EntNewTaskFromDB
    \/ EntChangeTitle
    \/ EntChangeDescription
    \/ EntSetDeadline
    \/ EntRemoveDeadline
    \/ EntComplete
    \/ EntReopen
    \/ Tick

---------------------------------------------------------------------------
(* The PostgreSQL task repository.  `rows` is table tasks; `execOk` is     *)
(* whether database/sql carried the statement out (FALSE: the driver or    *)
(* the server reported an error other than the constraint violations the   *)
(* repository maps).  Update binds five values to a statement with six     *)
(* placeholders; whether the driver accepts that is part of execOk.        *)

\* the users that table users holds while tasks are worked on
RegisteredOwners == Owners

RowOf(task) ==
    [id |-> task.id, owner |-> task.owner, title |-> task.title,
     description |-> task.description, deadline |-> task.deadline,
     isCompleted |-> task.isCompleted, completedAt |-> task.completedAt]

\* TaskRepository.Create
TaskRepoCreate(rows, task, execOk) ==
    IF ~execOk THEN [err |-> WrapCause(DBError), rows |-> rows]
    ELSE IF \E r \in rows : r.id = task.id
    THEN [err |-> Sentinel("ErrTaskRepoExists"), rows |-> rows]
    ELSE IF task.owner \notin RegisteredOwners
    THEN [err |-> Sentinel("ErrTaskRepoOwnerNotFound"), rows |-> rows]
    ELSE [err |-> NoErr, rows |-> rows \cup {RowOf(task)}]

\* TaskRepository.FindByID
TaskRepoFindByID(rows, id, execOk, t) ==
    IF ~execOk THEN [err |-> WrapCause(DBError), task |-> <<>>]
    ELSE IF ~\E r \in rows : r.id = id
    THEN [err |-> Sentinel("ErrTaskRepoNotFound"), task |-> <<>>]
    ELSE LET row == CHOOSE r \in rows : r.id = id
             restored == NewTaskFromDB(row, t) IN
         IF restored.err # NoErr
         THEN [err |-> WrapCause(restored.err), task |-> <<>>]
         ELSE [err |-> NoErr, task |-> restored.task]

\* TaskRepository.Update: the row's title, description, deadline,
\* is_completed and completed_at are overwritten, owner_id is not
TaskRepoUpdate(rows, task, execOk) ==
    IF ~execOk THEN [err |-> WrapCause(DBError), rows |-> rows]
    ELSE IF ~\E r \in rows : r.id = task.id
    THEN [err |-> Sentinel("ErrTaskRepoNotFound"), rows |-> rows]
    ELSE [err |-> NoErr,
          rows |-> {IF r.id = task.id
                    THEN [r EXCEPT !.title = task.title,
                                   !.description = task.description,
                                   !.deadline = task.deadline,
                                   !.isCompleted = task.isCompleted,
                                   !.completedAt = task.completedAt]
                    ELSE r : r \in rows}]

---------------------------------------------------------------------------
(* TaskService.  Each method is the function from what FindByID returned   *)
(* and the arguments to what the method does next: return err, or call     *)
(* Update with the changed task.  `task` is the entity the method holds    *)
(* at that point (<<>> if none was loaded).                                *)

Return(err, task) == [update |-> FALSE, err |-> err, task |-> task]
Persist(task) == [update |-> TRUE, err |-> NoErr, task |-> <<task>>]

\* the sentinel each method wraps unexpected repository errors in
FailedSentinel(op) ==
    CASE op = "Create" -> "ErrTaskCreateFailed"
      [] op = "ChangeTitle" -> "ErrTaskChangeTitleFailed"
      [] op = "ChangeDescription" -> "ErrTaskChangeDescriptionFailed"
      [] op = "SetDeadline" -> "ErrTaskSetDeadlineFailed"
      [] op = "RemoveDeadline" -> "ErrTaskRemoveDeadlineFailed"
      [] op = "Complete" -> "ErrTaskCompleteFailed"
      [] op = "Reopen" -> "ErrTaskReopenFailed"

\* TaskService.Create up to the call of Create; cmd is a CreateTaskCommand
TaskServiceCreate(cmd, id, t) ==
    IF cmd.deadline = <<>>
    THEN NewTask(cmd.title, cmd.description, cmd.owner, id)
    ELSE NewTaskWithDeadline(cmd.title, cmd.description, cmd.owner,
                             cmd.deadline[1], id, t)

\* TaskService.Create after Create returned err
TaskServiceCreated(err) ==
    IF ErrorsIs(err, "ErrTaskRepoExists") THEN Sentinel("ErrTaskExists")
    ELSE IF ErrorsIs(err, "ErrTaskRepoOwnerNotFound")
    THEN Sentinel("ErrTaskOwnerNotFound")
    ELSE IF err # NoErr THEN WrapFailed(FailedSentinel("Create"), err)
    ELSE NoErr

\* ChangeTitle validating the new title before it compares the owner
TaskServiceChangeTitleValidatesFirst(found, ownerID, new) ==
    IF ErrorsIs(found.err, "ErrTaskRepoNotFound")
    THEN Return(Sentinel("ErrTaskNotFound"), <<>>)
    ELSE IF found.err # NoErr
    THEN Return(WrapFailed(FailedSentinel("ChangeTitle"), found.err), <<>>)
    ELSE LET changed == TaskChangeTitle(found.task[1], new) IN
         IF changed.err # NoErr THEN Return(changed.err, <<changed.task>>)
         ELSE IF found.task[1].owner # ownerID
         THEN Return(Sentinel("ErrTaskAccessDenied"), found.task)
         ELSE Persist(changed.task)

\* ChangeTitle without the comparison of the owner
TaskServiceChangeTitleNoOwnerCheck(found, ownerID, new) ==
    IF ErrorsIs(found.err, "ErrTaskRepoNotFound")
    THEN Return(Sentinel("ErrTaskNotFound"), <<>>)
    ELSE IF found.err # NoErr
    THEN Return(WrapFailed(FailedSentinel("ChangeTitle"), found.err), <<>>)
    ELSE LET changed == TaskChangeTitle(found.task[1], new) IN
         IF changed.err # NoErr THEN Return(changed.err, <<changed.task>>)
         ELSE Persist(changed.task)

\* ChangeTitle persisting the task although the new title was rejected
TaskServiceChangeTitleIgnoresError(found, ownerID, new) ==
    IF ErrorsIs(found.err, "ErrTaskRepoNotFound")
    THEN Return(Sentinel("ErrTaskNotFound"), <<>>)
    ELSE IF found.err # NoErr
    THEN Return(WrapFailed(FailedSentinel("ChangeTitle"), found.err), <<>>)
    ELSE IF found.task[1].owner # ownerID
    THEN Return(Sentinel("ErrTaskAccessDenied"), found.task)
    ELSE Persist(TaskChangeTitle(found.task[1], new).task)

\* TaskService.ChangeTitle up to the call of Update
TaskServiceChangeTitle(found, ownerID, new) ==
    IF ErrorsIs(found.err, "ErrTaskRepoNotFound")
    THEN Return(Sentinel("ErrTaskNotFound"), <<>>)
    ELSE IF found.err # NoErr
    THEN Return(WrapFailed(FailedSentinel("ChangeTitle"), found.err), <<>>)
    ELSE IF found.task[1].owner # ownerID
    THEN Return(Sentinel("ErrTaskAccessDenied"), found.task)
    ELSE LET changed == TaskChangeTitle(found.task[1], new) IN
         IF changed.err # NoErr THEN Return(changed.err, <<changed.task>>)
         ELSE Persist(changed.task)

\* TaskService.ChangeDescription up to the call of Update
TaskServiceChangeDescription(found, ownerID, new) ==
    IF ErrorsIs(found.err, "ErrTaskRepoNotFound")
    THEN Return(Sentinel("ErrTaskNotFound"), <<>>)
    ELSE IF found.err # NoErr
    THEN Return(WrapFailed(FailedSentinel("ChangeDescription"), found.err),
                <<>>)
    ELSE IF found.task[1].owner # ownerID
    THEN Return(Sentinel("ErrTaskAccessDenied"), found.task)
    ELSE LET changed == TaskChangeDescription(found.task[1], new) IN
         IF changed.err # NoErr THEN Return(changed.err, <<changed.task>>)
         ELSE Persist(changed.task)

\* TaskService.SetDeadline up to the call of Update
TaskServiceSetDeadline(found, ownerID, deadline, t) ==
    IF ErrorsIs(found.err, "ErrTaskRepoNotFound")
    THEN Return(Sentinel("ErrTaskNotFound"), <<>>)
    ELSE IF found.err # NoErr
    THEN Return(WrapFailed(FailedSentinel("SetDeadline"), found.err), <<>>)
    ELSE IF found.task[1].owner # ownerID
    THEN Return(Sentinel("ErrTaskAccessDenied"), found.task)
    ELSE LET changed == TaskSetDeadline(found.task[1], deadline, t) IN
         IF changed.err # NoErr THEN Return(changed.err, <<changed.task>>)
         ELSE Persist(changed.task)

\* TaskService.RemoveDeadline up to the call of Update
TaskServiceRemoveDeadline(found, ownerID) ==
    IF ErrorsIs(found.err, "ErrTaskRepoNotFound")
    THEN Return(Sentinel("ErrTaskNotFound"), <<>>)
    ELSE IF found.err # NoErr
    THEN Return(WrapFailed(FailedSentinel("RemoveDeadline"), found.err), <<>>)
    ELSE IF found.task[1].owner # ownerID
    THEN Return(Sentinel("ErrTaskAccessDenied"), found.task)
    ELSE Persist(TaskRemoveDeadline(found.task[1]))

\* TaskService.Complete up to the call of Update
TaskServiceComplete(found, ownerID, t) ==
    IF ErrorsIs(found.err, "ErrTaskRepoNotFound")
    THEN Return(Sentinel("ErrTaskNotFound"), <<>>)
    ELSE IF found.err # NoErr
    THEN Return(WrapFailed(FailedSentinel("Complete"), found.err), <<>>)
    ELSE IF found.task[1].owner # ownerID
    THEN Return(Sentinel("ErrTaskAccessDenied"), found.task)
    ELSE IF IsCompleted(found.task[1]) THEN Return(NoErr, found.task)
    ELSE Persist(TaskComplete(found.task[1], t))

\* TaskService.Reopen up to the call of Update
TaskServiceReopen(found, ownerID) ==
    IF ErrorsIs(found.err, "ErrTaskRepoNotFound")
    THEN Return(Sentinel("ErrTaskNotFound"), <<>>)
    ELSE IF found.err # NoErr
    THEN Return(WrapFailed(FailedSentinel("Reopen"), found.err), <<>>)
    ELSE IF found.task[1].owner # ownerID
    THEN Return(Sentinel("ErrTaskAccessDenied"), found.task)
    ELSE IF ~IsCompleted(found.task[1]) THEN Return(NoErr, found.task)
    ELSE Persist(TaskReopen(found.task[1]))

\* every mutation wrapping a failure of Update in ChangeTitle's sentinel
TaskServiceUpdatedAsChangeTitle(op, err) ==
    IF err # NoErr THEN WrapFailed(FailedSentinel("ChangeTitle"), err)
    ELSE NoErr

\* every mutation after Update returned err
TaskServiceUpdated(op, err) ==
    IF err # NoErr THEN WrapFailed(FailedSentinel(op), err) ELSE NoErr

---------------------------------------------------------------------------
(* TaskSpec: requests calling TaskService, served one at a time.  A call   *)
(* is one step per repository call it makes: the step of a mutation's      *)
(* FindByID runs the method up to its return or to its call of Update,     *)
(* the step of Update runs it to its return; the clock may move between.   *)
(* tlast is the call that returned in the latest step, NoTaskCall if none  *)
(* did.                                                                    *)

\* the ids uuid.New() hands out to tasks, in this order: TaskSpec follows
\* one task row from before its creation on
TaskIDs == {1}

\* what a caller may put in a CreateTaskCommand
CreateTaskCommands ==
    [title : {TitleA}, description : {DescriptionEmpty},
     owner : Owners \cup {"u3"}, deadline : OptTimes]
    \cup [title : {TitleEmpty, TitleTooLong}, description : {DescriptionEmpty},
          owner : {"u1"}, deadline : {<<>>}]
    \cup [title : {TitleA}, description : {DescriptionTooLong},
          owner : {"u1"}, deadline : {<<>>}]

\* a call that returned: the method, the task id and requestingOwnerID it
\* was given, what the value object's constructor says of the new value
\* (argErr), how FindByID ended (lookup), the owner of the task loaded,
\* whether the task held at the return has the title, description and
\* deadline it was loaded with (kept), the error returned, whether Update
\* was called and whether it failed, whether the database failed FindByID's
\* query (dbFailed), whether the row of that id belonged to the caller
\* (rowOwned) and was completed (rowCompleted, <<>> if there was no row)
\* when FindByID read it, whether its Update changed a stored field that
\* is not one the method sets (overwrote), and of a Create whether its
\* command carried a deadline that was not after the clock (notFuture) and
\* whether the repository's Create was called
NoTaskCall ==
    [op |-> "none", id |-> 0, caller |-> "", argErr |-> NoErr,
     lookup |-> "none", owner |-> <<>>, kept |-> TRUE, err |-> NoErr,
     updateCalled |-> FALSE, updateFailed |-> FALSE, dbFailed |-> FALSE,
     rowOwned |-> FALSE, rowCompleted |-> <<>>, overwrote |-> FALSE,
     notFuture |-> FALSE, createCalled |-> FALSE]

\* how FindByID ended
Lookup(found) ==
    IF found.err = NoErr THEN "found"
    ELSE IF ErrorsIs(found.err, "ErrTaskRepoNotFound") THEN "notfound"
    ELSE "failed"

Kept(found, res) ==
    found.task = <<>>
    \/ /\ res.task # <<>>
       /\ res.task[1].title = found.task[1].title
       /\ res.task[1].description = found.task[1].description
       /\ res.task[1].deadline = found.task[1].deadline

CallOf(op, id, ownerID, argErr, found, res) ==
    [op |-> op, id |-> id, caller |-> ownerID, argErr |-> argErr,
     lookup |-> Lookup(found),
     owner |-> IF found.task = <<>> THEN <<>> ELSE <<found.task[1].owner>>,
     kept |-> Kept(found, res), err |-> res.err, updateCalled |-> FALSE,
     updateFailed |-> FALSE,
     dbFailed |-> ErrorsIs(found.err, DBError[1]),
     rowOwned |-> \E r \in tasks : r.id = id /\ r.owner = ownerID,
     rowCompleted |-> IF \E r \in tasks : r.id = id
                      THEN <<(CHOOSE r \in tasks : r.id = id).isCompleted>>
                      ELSE <<>>,
     overwrote |-> FALSE, notFuture |-> FALSE, createCalled |-> FALSE]

\* tlast follows the calls of request r1.  r2, which runs in TaskRaceSpec
\* only, is a request like it whose mutations run between FindByID and
\* Update of a mutation of r1, and r1 waits while r2 is between its own:
\* of two overlapping mutations one always has its two repository calls
\* next to each other once the lookups, which commute, are moved.
TaskObserved(p, call) == IF p = "r1" THEN call ELSE NoTaskCall
TaskTurn(p) == IF p = "r1" THEN tproc["r2"] = <<>> ELSE tproc["r1"] # <<>>

\* the columns each method means to set
OwnColumns(op) ==
    CASE op = "ChangeTitle" -> {"title"}
      [] op = "ChangeDescription" -> {"description"}
      [] op \in {"SetDeadline", "RemoveDeadline"} -> {"deadline"}
      [] op \in {"Complete", "Reopen"} -> {"isCompleted", "completedAt"}

\* Update, writing task over rows, changes a column of the stored row that
\* the method op does not mean to set
Overwrote(op, rows, task) ==
    \E r \in rows :
        /\ r.id = task.id
        /\ \E c \in {"title", "description", "deadline", "isCompleted",
                     "completedAt"} \ OwnColumns(op) :
                r[c] # RowOf(task)[c]

\* request p has run a mutation up to its return or its call of Update
Begin(p, op, id, ownerID, argErr, found, res) ==
    /\ tproc[p] = <<>>
    /\ TaskTurn(p)
    /\ IF res.update
       THEN /\ tproc' = [tproc EXCEPT ![p] =
                            <<[call |-> CallOf(op, id, ownerID, argErr,
                                               found, res),
                               task |-> res.task[1]]>>]
            /\ tlast' = NoTaskCall
       ELSE /\ tlast' = TaskObserved(p, CallOf(op, id, ownerID, argErr,
                                                found, res))
            /\ UNCHANGED tproc
    /\ UNCHANGED <<now, tasks, nextTid, dueLater, entVars, userVars, httpVars>>

Create(p) ==
    /\ \A q \in Procs : tproc[q] = <<>>
    /\ nextTid < Cardinality(TaskIDs)
    /\ \E cmd \in CreateTaskCommands, execOk \in BOOLEAN :
        LET made == TaskServiceCreate(cmd, nextTid + 1, now)
            created == TaskRepoCreate(tasks, made.task[1], execOk) IN
        /\ nextTid' = IF made.err = NoErr THEN nextTid + 1 ELSE nextTid
        /\ dueLater' = IF /\ made.err = NoErr
                          /\ created.err = NoErr
                          /\ cmd.deadline # <<>>
                          /\ cmd.deadline[1] > now
                       THEN dueLater \cup {nextTid + 1}
                       ELSE dueLater
        /\ tasks' = IF made.err = NoErr THEN created.rows ELSE tasks
        /\ tlast' = [NoTaskCall EXCEPT
                        !.op = "Create", !.caller = cmd.owner,
                        !.argErr = made.err,
                        !.notFuture = (cmd.deadline # <<>>
                                       /\ cmd.deadline[1] <= now),
                        !.createCalled = (made.err = NoErr),
                        !.err = IF made.err # NoErr THEN made.err
                                ELSE TaskServiceCreated(created.err)]
    /\ UNCHANGED <<now, tproc, entVars, userVars, httpVars>>

ChangeTitle(p) ==
    \E id \in TaskIDs, ownerID \in Owners, new \in TitleInputs,
       execOk \in BOOLEAN :
        LET found == TaskRepoFindByID(tasks, id, execOk, now) IN
        Begin(p, "ChangeTitle", id, ownerID, NewTitle(new).err, found,
              TaskServiceChangeTitle(found, ownerID, new))

ChangeDescription(p) ==
    \E id \in TaskIDs, ownerID \in Owners, new \in DescriptionInputs,
       execOk \in BOOLEAN :
        LET found == TaskRepoFindByID(tasks, id, execOk, now) IN
        Begin(p, "ChangeDescription", id, ownerID, NewDescription(new).err,
              found, TaskServiceChangeDescription(found, ownerID, new))

SetDeadline(p) ==
    \E id \in TaskIDs, ownerID \in Owners, deadline \in Times,
       execOk \in BOOLEAN :
        LET found == TaskRepoFindByID(tasks, id, execOk, now) IN
        Begin(p, "SetDeadline", id, ownerID, NewDeadline(deadline, now).err,
              found, TaskServiceSetDeadline(found, ownerID, deadline, now))

RemoveDeadline(p) ==
    \E id \in TaskIDs, ownerID \in Owners, execOk \in BOOLEAN :
        LET found == TaskRepoFindByID(tasks, id, execOk, now) IN
        Begin(p, "RemoveDeadline", id, ownerID, NoErr, found,
              TaskServiceRemoveDeadline(found, ownerID))

Complete(p) ==
    \E id \in TaskIDs, ownerID \in Owners, execOk \in BOOLEAN :
        LET found == TaskRepoFindByID(tasks, id, execOk, now) IN
        Begin(p, "Complete", id, ownerID, NoErr, found,
              TaskServiceComplete(found, ownerID, now))

Reopen(p) ==
    \E id \in TaskIDs, ownerID \in Owners, execOk \in BOOLEAN :
        LET found == TaskRepoFindByID(tasks, id, execOk, now) IN
        Begin(p, "Reopen", id, ownerID, NoErr, found,
              TaskServiceReopen(found, ownerID))

\* request p's mutation calls Update and returns
Update(p) ==
    /\ tproc[p] # <<>>
    /\ TaskTurn(p)
    /\ \E execOk \in BOOLEAN :
        LET call == tproc[p][1].call
            updated == TaskRepoUpdate(tasks, tproc[p][1].task, execOk) IN
        /\ tasks' = updated.rows
        /\ tlast' = TaskObserved(p, [call EXCEPT
                        !.err = TaskServiceUpdated(call.op, updated.err),
                        !.updateCalled = TRUE,
                        !.updateFailed = (updated.err # NoErr),
                        !.overwrote =
                            (updated.err = NoErr
                             /\ Overwrote(call.op, tasks,
                                          tproc[p][1].task))])
    /\ tproc' = [tproc EXCEPT ![p] = <<>>]
    /\ UNCHANGED <<now, nextTid, dueLater, entVars, userVars, httpVars>>

\* time passes while a call is in flight or between calls
TaskTick ==
    /\ now < MaxTime
    /\ now' = now + 1
    /\ tlast' = NoTaskCall
    /\ UNCHANGED <<tasks, nextTid, dueLater, tproc, entVars, userVars,
                   httpVars>>

TaskNext ==
    \/ Create("r1")
    \/ ChangeTitle("r1")
    \/ ChangeDescription("r1")
    \/ SetDeadline("r1")
    \/ RemoveDeadline("r1")
    \/ Complete("r1")
    \/ Reopen("r1")
    \/ Update("r1")
    \/ TaskTick

\* TaskRaceSpec: the mutations of r1 with those of r2 running between
\* their FindByID and their Update, at one reading of the clock.
TaskRaceNext ==
    \/ Create("r1")
    \/ \E p \in Procs :
        \/ ChangeTitle(p)
        \/ ChangeDescription(p)
        \/ SetDeadline(p)
        \/ RemoveDeadline(p)
        \/ Complete(p)
        \/ Reopen(p)
        \/ Update(p)

---------------------------------------------------------------------------
(* The user value objects: vo.Username, vo.Email, vo.Password. *)

UsernameMinLength == 2
UsernameMaxLength == 30
PasswordMinLength == 8
PasswordMaxLength == 72

\* vo.NewUsername
NewUsername(value) ==
    IF value = <<>> THEN [err |-> Sentinel("ErrUsernameEmpty"), val |-> <<>>]
    ELSE IF Len(value) < UsernameMinLength
    THEN [err |-> Sentinel("ErrUsernameTooShort"), val |-> <<>>]
    ELSE IF Len(value) > UsernameMaxLength
    THEN [err |-> Sentinel("ErrUsernameTooLong"), val |-> <<>>]
    ELSE [err |-> NoErr, val |-> value]

\* the characters RFC 5322 allows in an atom
IsAtext(c) ==
    \/ c \in 97..122
    \/ c \in 65..90
    \/ c \in 48..57
    \/ c \in {33, 35, 36, 37, 38, 39, 42, 43, 45, 47, 61, 63, 94, 95, 96,
              123, 124, 125, 126}

\* a dot-atom: atoms separated by single dots
IsDotAtom(s) ==
    /\ s # <<>>
    /\ \A i \in 1..Len(s) : IsAtext(s[i]) \/ s[i] = 46
    /\ s[1] # 46
    /\ s[Len(s)] # 46
    /\ \A i \in 1..(Len(s) - 1) : ~(s[i] = 46 /\ s[i + 1] = 46)

\* whether mail.ParseAddress accepts value, for a value without display
\* name, angle brackets, quotes or comments: local-part "@" domain
ParseAddressOk(value) ==
    \E i \in 1..Len(value) :
        /\ value[i] = 64
        /\ IsDotAtom(SubSeq(value, 1, i - 1))
        /\ IsDotAtom(SubSeq(value, i + 1, Len(value)))

\* vo.NewEmail
NewEmail(value) ==
    LET trimmed == TrimSpace(value) IN
    IF trimmed = <<>> THEN [err |-> Sentinel("ErrEmailEmpty"), val |-> <<>>]
    ELSE IF ~ParseAddressOk(trimmed)
    THEN [err |-> Sentinel("ErrEmailInvalid"), val |-> <<>>]
    ELSE [err |-> NoErr, val |-> trimmed]

isASCII(s) == \A i \in 1..Len(s) : s[i] <= 127

\* bcrypt.GenerateFromPassword: the hash stands for the password it was
\* made from; two hashes of one password verify alike
BcryptHash(raw) == <<"bcrypt", raw>>

\* a stored password_hash that is not a bcrypt hash
TextHash(text) == <<"text", text>>

\* vo.NewPassword
NewPassword(raw) ==
    IF raw = <<>> THEN [err |-> Sentinel("ErrPasswordEmpty"), val |-> <<>>]
    ELSE IF ~isASCII(raw)
    THEN [err |-> Sentinel("ErrPasswordInvalid"), val |-> <<>>]
    ELSE IF Len(raw) < PasswordMinLength
    THEN [err |-> Sentinel("ErrPasswordTooShort"), val |-> <<>>]
    ELSE IF Len(raw) > PasswordMaxLength
    THEN [err |-> Sentinel("ErrPasswordTooLong"), val |-> <<>>]
    ELSE [err |-> NoErr, val |-> BcryptHash(raw)]

\* Password.Verify: nil on a match, ErrPassowrdNotMatch on a mismatch, and
\* ErrPasswordVerifyFailed when bcrypt cannot read the hash
Verify(hash, raw) ==
    IF hash[1] # "bcrypt" THEN WrapFailed("ErrPasswordVerifyFailed",
                                              Sentinel("bcrypt.ErrHashTooShort"))
    ELSE IF hash[2] # raw THEN Sentinel("ErrPassowrdNotMatch")
    ELSE NoErr

---------------------------------------------------------------------------
(* The User entity (models.User). *)

MkUser(id, username, email, passwordHash) ==
    [id |-> id, username |-> username, email |-> email,
     passwordHash |-> passwordHash]

\* models.NewUser; id is the value uuid.New() returns
NewUser(username, email, password, id) ==
    LET u == NewUsername(username)
        e == NewEmail(email)
        pw == NewPassword(password) IN
    IF u.err # NoErr THEN [err |-> u.err, user |-> <<>>]
    ELSE IF e.err # NoErr THEN [err |-> e.err, user |-> <<>>]
    ELSE IF pw.err # NoErr THEN [err |-> pw.err, user |-> <<>>]
    ELSE [err |-> NoErr, user |-> <<MkUser(id, u.val, e.val, pw.val)>>]

\* models.NewUserFromDB; the ids of the model are well-formed UUIDs
NewUserFromDB(p) ==
    LET u == NewUsername(p.username)
        e == NewEmail(p.email) IN
    IF u.err # NoErr THEN [err |-> u.err, user |-> <<>>]
    ELSE IF e.err # NoErr THEN [err |-> e.err, user |-> <<>>]
    ELSE [err |-> NoErr,
          user |-> <<MkUser(p.id, u.val, e.val, p.passwordHash)>>]

\* User.ChangeUsername
UserChangeUsername(user, new) ==
    LET u == NewUsername(new) IN
    IF u.err # NoErr THEN [err |-> u.err, user |-> user]
    ELSE [err |-> NoErr, user |-> [user EXCEPT !.username = u.val]]

\* User.ChangeEmail
UserChangeEmail(user, new) ==
    LET e == NewEmail(new) IN
    IF e.err # NoErr THEN [err |-> e.err, user |-> user]
    ELSE [err |-> NoErr, user |-> [user EXCEPT !.email = e.val]]

\* a ChangePassword that does not verify the old password
UserChangePasswordUnverified(user, old, new) ==
    LET newPasswordVO == NewPassword(new) IN
    IF newPasswordVO.err # NoErr
    THEN [err |-> newPasswordVO.err, user |-> user]
    ELSE [err |-> NoErr,
          user |-> [user EXCEPT !.passwordHash = newPasswordVO.val]]

\* User.ChangePassword
UserChangePassword(user, old, new) ==
    LET verified == Verify(user.passwordHash, old)
        newPasswordVO == NewPassword(new) IN
    IF verified # NoErr THEN [err |-> verified, user |-> user]
    ELSE IF newPasswordVO.err # NoErr
    THEN [err |-> newPasswordVO.err, user |-> user]
    ELSE [err |-> NoErr,
          user |-> [user EXCEPT !.passwordHash = newPasswordVO.val]]

---------------------------------------------------------------------------
(* postgres.UserRepository over table users (id UUID PRIMARY KEY, email    *)
(* TEXT NOT NULL UNIQUE).  execOk = FALSE is a statement the database      *)
(* fails for a reason of its own.                                          *)

\* what the PRIMARY KEY and UNIQUE constraints of table users refuse
UsersConflict(rows, u) ==
    \E r \in rows : r.id # u.id /\ r.email = u.email

\* a Create that stores a second row with an email already stored
UserRepoCreateNoUniqueEmail(rows, u, execOk) ==
    IF ~execOk THEN [err |-> WrapCause(DBError), rows |-> rows]
    ELSE IF \E r \in rows : r.id = u.id
    THEN [err |-> Sentinel("ErrUserRepoExists"), rows |-> rows]
    ELSE [err |-> NoErr, rows |-> rows \cup {u}]

\* UserRepository.Create
UserRepoCreate(rows, u, execOk) ==
    IF ~execOk THEN [err |-> WrapCause(DBError), rows |-> rows]
    ELSE IF (\E r \in rows : r.id = u.id) \/ UsersConflict(rows, u)
    THEN [err |-> Sentinel("ErrUserRepoExists"), rows |-> rows]
    ELSE [err |-> NoErr, rows |-> rows \cup {u}]

\* the tail of FindByID and FindByEmail: the row read is restored
UserRestored(found) ==
    IF found = {} THEN [err |-> Sentinel("ErrUserRepoNotFound"), user |-> <<>>]
    ELSE LET restored == NewUserFromDB(CHOOSE r \in found : TRUE) IN
         IF restored.err # NoErr
         THEN [err |-> WrapCause(restored.err), user |-> <<>>]
         ELSE [err |-> NoErr, user |-> restored.user]

\* UserRepository.FindByID
UserRepoFindByID(rows, id, execOk) ==
    IF ~execOk THEN [err |-> WrapCause(DBError), user |-> <<>>]
    ELSE UserRestored({r \in rows : r.id = id})

\* UserRepository.FindByEmail
UserRepoFindByEmail(rows, email, execOk) ==
    IF ~execOk THEN [err |-> WrapCause(DBError), user |-> <<>>]
    ELSE UserRestored({r \in rows : r.email = email})

\* UserRepository.Update
UserRepoUpdate(rows, u, execOk) ==
    IF ~execOk THEN [err |-> WrapCause(DBError), rows |-> rows]
    ELSE IF ~\E r \in rows : r.id = u.id
    THEN [err |-> Sentinel("ErrUserRepoNotFound"), rows |-> rows]
    ELSE IF UsersConflict(rows, u)
    THEN [err |-> WrapCause(DBError), rows |-> rows]
    ELSE [err |-> NoErr, rows |-> {IF r.id = u.id THEN u ELSE r : r \in rows}]

\* a Delete that answers nil for a row it leaves in the table
UserRepoDeleteKeepsRow(rows, id, execOk) ==
    IF ~execOk THEN [err |-> WrapCause(DBError), rows |-> rows]
    ELSE IF ~\E r \in rows : r.id = id
    THEN [err |-> Sentinel("ErrUserRepoNotFound"), rows |-> rows]
    ELSE [err |-> NoErr, rows |-> rows]

\* UserRepository.Delete
UserRepoDelete(rows, id, execOk) ==
    IF ~execOk THEN [err |-> WrapCause(DBError), rows |-> rows]
    ELSE IF ~\E r \in rows : r.id = id
    THEN [err |-> Sentinel("ErrUserRepoNotFound"), rows |-> rows]
    ELSE [err |-> NoErr, rows |-> {r \in rows : r.id # id}]

\* jwt.Provider.Generate: the token carries the user id
Generate(userID, genOk) ==
    IF genOk THEN [err |-> NoErr, token |-> <<"jwt", userID>>]
    ELSE [err |-> Sentinel("jwt.SignedString"), token |-> <<>>]

---------------------------------------------------------------------------
(* UserService.  A method is cut at its repository calls: the operator of  *)
(* a part answers with the error to return (next = "return") or with the   *)
(* repository call the method makes next.                                  *)

UserReturn(err) == [next |-> "return", err |-> err, user |-> <<>>]
UserProceed(next, user) == [next |-> next, err |-> NoErr, user |-> <<user>>]

\* a Register that answers every Create failure with ErrUserRegisterFailed
UserServiceRegisterHidesExists(rows, username, email, password, id, execOk) ==
    LET made == NewUser(username, email, password, id) IN
    IF made.err # NoErr THEN [err |-> made.err, rows |-> rows]
    ELSE LET created == UserRepoCreate(rows, made.user[1], execOk) IN
         IF created.err # NoErr
         THEN [err |-> Sentinel("ErrUserRegisterFailed"), rows |-> rows]
         ELSE [err |-> NoErr, rows |-> created.rows]

\* UserService.Register
UserServiceRegister(rows, username, email, password, id, execOk) ==
    LET made == NewUser(username, email, password, id) IN
    IF made.err # NoErr THEN [err |-> made.err, rows |-> rows]
    ELSE LET created == UserRepoCreate(rows, made.user[1], execOk) IN
         IF ErrorsIs(created.err, "ErrUserRepoExists")
         THEN [err |-> Sentinel("ErrUserExists"), rows |-> rows]
         ELSE IF created.err # NoErr
         THEN [err |-> Sentinel("ErrUserRegisterFailed"), rows |-> rows]
         ELSE [err |-> NoErr, rows |-> created.rows]

LoginReturn(err) == [err |-> err, token |-> <<>>, genCalled |-> FALSE]

\* the part of Login from the token provider's answer on
LoginGenerated(generated) ==
    IF generated.err # NoErr
    THEN [err |-> WrapFailed("ErrUserLoginFailed", generated.err),
          token |-> <<>>, genCalled |-> TRUE]
    ELSE [err |-> NoErr, token |-> generated.token, genCalled |-> TRUE]

\* a Login that asks for the token whatever Verify answered
UserServiceLoginIgnoresVerify(found, password, genOk) ==
    IF ErrorsIs(found.err, "ErrUserRepoNotFound")
    THEN LoginReturn(Sentinel("ErrUserNotFound"))
    ELSE IF found.err # NoErr
    THEN LoginReturn(WrapFailed("ErrUserLoginFailed", found.err))
    ELSE LoginGenerated(Generate(found.user[1].id, genOk))

\* UserService.Login, found being what FindByEmail answered
UserServiceLogin(found, password, genOk) ==
    IF ErrorsIs(found.err, "ErrUserRepoNotFound")
    THEN LoginReturn(Sentinel("ErrUserNotFound"))
    ELSE IF found.err # NoErr
    THEN LoginReturn(WrapFailed("ErrUserLoginFailed", found.err))
    ELSE LET verified == Verify(found.user[1].passwordHash, password) IN
         IF ErrorsIs(verified, "ErrPassowrdNotMatch")
         THEN LoginReturn(Sentinel("ErrUserUnauthorized"))
         ELSE IF verified # NoErr
         THEN LoginReturn(WrapFailed("ErrUserLoginFailed", verified))
         ELSE LoginGenerated(Generate(found.user[1].id, genOk))

\* UserService.ChangeUsername up to its call of Update: of Verify's
\* answers only ErrPassowrdNotMatch is looked at
UserServiceChangeUsername(found, newUsername, password) ==
    IF ErrorsIs(found.err, "ErrUserRepoNotFound")
    THEN UserReturn(Sentinel("ErrUserNotFound"))
    ELSE IF found.err # NoErr
    THEN UserReturn(WrapFailed("ErrUserChangeEmailFailed", found.err))
    ELSE LET verified == Verify(found.user[1].passwordHash, password)
             changed == UserChangeUsername(found.user[1], newUsername) IN
         IF ErrorsIs(verified, "ErrPassowrdNotMatch")
         THEN UserReturn(Sentinel("ErrUserUnauthorized"))
         ELSE IF changed.err # NoErr THEN UserReturn(changed.err)
         ELSE UserProceed("Update", changed.user)

\* UserService.ChangeEmail up to its call of FindByEmail
UserServiceChangeEmail(found, password) ==
    IF ErrorsIs(found.err, "ErrUserRepoNotFound")
    THEN UserReturn(Sentinel("ErrUserNotFound"))
    ELSE IF found.err # NoErr
    THEN UserReturn(WrapFailed("ErrUserChangeEmailFailed", found.err))
    ELSE LET verified == Verify(found.user[1].passwordHash, password) IN
         IF ErrorsIs(verified, "ErrPassowrdNotMatch")
         THEN UserReturn(Sentinel("ErrUserUnauthorized"))
         ELSE IF verified # NoErr
         THEN UserReturn(WrapFailed("ErrUserChangeEmailFailed", verified))
         ELSE UserProceed("FindByEmail", found.user[1])

\* UserService.ChangeEmail from the answer of FindByEmail to its call of
\* Update: the answer is compared with ErrUserNotFound, the service's
\* sentinel, where the repository answers ErrUserRepoNotFound
UserServiceChangeEmailTaken(user, byEmail, newEmail) ==
    IF byEmail.err = NoErr THEN UserReturn(Sentinel("ErrEmailAlreadyTaken"))
    ELSE IF ~ErrorsIs(byEmail.err, "ErrUserNotFound")
    THEN UserReturn(WrapFailed("ErrUserChangeEmailFailed", byEmail.err))
    ELSE LET changed == UserChangeEmail(user, newEmail) IN
         IF changed.err # NoErr THEN UserReturn(changed.err)
         ELSE UserProceed("Update", changed.user)

\* the end of ChangeUsername and ChangeEmail, err being what Update answered
UserServiceUpdated(err) ==
    IF err # NoErr THEN WrapFailed("ErrUserChangeEmailFailed", err)
    ELSE NoErr

\* UserService.ChangePassword up to its call of Update
UserServiceChangePassword(found, old, new) ==
    IF ErrorsIs(found.err, "ErrUserRepoNotFound")
    THEN UserReturn(Sentinel("ErrUserNotFound"))
    ELSE IF found.err # NoErr
    THEN UserReturn(WrapFailed("ErrUserChangePasswordFailed", found.err))
    ELSE LET changedUser == UserChangePassword(found.user[1], old, new) IN
         IF changedUser.err # NoErr THEN UserReturn(changedUser.err)
         ELSE UserProceed("Update", changedUser.user)

\* the end of ChangePassword, err being what Update answered
UserServiceChangePasswordUpdated(err) ==
    IF err # NoErr THEN WrapFailed("ErrUserChangePasswordFailed", err)
    ELSE NoErr

\* UserService.Delete up to its call of the repository's Delete
UserServiceDelete(found, password) ==
    IF ErrorsIs(found.err, "ErrUserRepoNotFound")
    THEN UserReturn(Sentinel("ErrUserNotFound"))
    ELSE IF found.err # NoErr
    THEN UserReturn(WrapFailed("ErrUserDeleteFailed", found.err))
    ELSE LET verified == Verify(found.user[1].passwordHash, password) IN
         IF ErrorsIs(verified, "ErrPassowrdNotMatch")
         THEN UserReturn(Sentinel("ErrUserUnauthorized"))
         ELSE IF verified # NoErr
         THEN UserReturn(WrapFailed("ErrUserDeleteFailed", verified))
         ELSE UserProceed("Delete", found.user[1])

\* the end of Delete, err being what the repository's Delete answered
UserServiceDeleted(err) ==
    IF err # NoErr THEN WrapFailed("ErrUserDeleteFailed", err)
    ELSE NoErr

---------------------------------------------------------------------------
(* UserSpec: requests calling UserService concurrently, each repository    *)
(* call one step.                                                          *)

UsernameAl == <<97, 108>>
UsernameBo == <<98, 111>>
UsernameShort == <<97>>
EmailA == <<97, 64, 120>>
EmailB == <<98, 64, 120>>
EmailAPadded == <<32, 97, 64, 120>>
EmailInvalid == <<97, 120>>
PasswordP == Rep(112, PasswordMinLength)
PasswordQ == Rep(113, PasswordMinLength)
PasswordShort == Rep(112, PasswordMinLength - 1)
Passwords == {PasswordP, PasswordQ}
UserIDs == 1..MaxUsers

RegisterCommands ==
    [username : {UsernameAl}, email : {EmailA, EmailAPadded, EmailB},
     password : {PasswordP}]
    \cup [username : {UsernameShort}, email : {EmailA},
          password : {PasswordP}]
    \cup [username : {UsernameAl}, email : {EmailInvalid},
          password : {PasswordP}]
    \cup [username : {UsernameAl}, email : {EmailA},
          password : {PasswordShort}]

\* a call that returned: the method, the id and email it was given, the
\* password Login was given or the new password ChangePassword was given,
\* the old password ChangePassword was given, whether a Delete that
\* returned nil had removed the user of that id, or of that email with no
\* user stored with it since, before the call (deletedBefore),
\* what the constructor of the new value says of it (argErr), how
\* the first lookup ended, what Verify says of the password against the
\* hash of the user loaded, how ChangeEmail's FindByEmail ended (byEmail),
\* whether a row of another id held the new email when ChangeEmail called
\* FindByEmail (heldByOther),
\* whether a row held the email when Register was called (held), whether
\* an earlier Register with the email succeeded (registeredBefore), whether
\* the database carried out its statement (dbOk), the error and token
\* returned, and whether the token provider and the repository's Update or
\* Delete were called
NoUserCall ==
    [op |-> "none", id |-> 0, email |-> <<>>, password |-> <<>>,
     old |-> <<>>, deletedBefore |-> FALSE,
     argErr |-> NoErr, lookup |-> "none", verify |-> "none",
     byEmail |-> "none", heldByOther |-> FALSE,
     held |-> FALSE, registeredBefore |-> FALSE,
     dbOk |-> TRUE, err |-> NoErr, token |-> <<>>, genCalled |-> FALSE,
     writeCalled |-> FALSE]

\* how FindByID or FindByEmail ended
UserLookup(found) ==
    IF found.err = NoErr THEN "found"
    ELSE IF ErrorsIs(found.err, "ErrUserRepoNotFound") THEN "notfound"
    ELSE "failed"

\* what Verify says of the password against the hash of the user loaded
VerifyOutcome(found, password) ==
    IF found.err # NoErr THEN "none"
    ELSE LET verified == Verify(found.user[1].passwordHash, password) IN
         IF verified = NoErr THEN "match"
         ELSE IF ErrorsIs(verified, "ErrPassowrdNotMatch") THEN "mismatch"
         ELSE "failed"

\* ulast follows the calls of request r1; r2 is a request like it that
\* runs beside it
Observed(p, call) == IF p = "r1" THEN call ELSE NoUserCall

\* r2's methods run between any two repository calls of r1, and r1 waits
\* while r2 is between two of its own.  Of two overlapping calls one always
\* has its repository calls next to each other once the lookups, which
\* commute, are moved: every overlap of two calls is there with r1 as the
\* call that is cut.
Turn(p) == p = "r1" => uproc["r2"] = <<>>

\* a statement the database fails is tried with one input of each method:
\* what the other inputs are does not change how the call ends
LoginInputs ==
    {i \in [email : {EmailA, EmailB}, password : Passwords,
            execOk : BOOLEAN, genOk : BOOLEAN] :
        /\ i.execOk \/ (i.email = EmailA /\ i.password = PasswordP)
        /\ i.genOk \/ (i.execOk /\ i.password = PasswordP)}
ChangeUsernameInputs ==
    {i \in [id : UserIDs, new : {UsernameBo, UsernameShort},
            password : Passwords, execOk : BOOLEAN] :
        i.execOk \/ (i.id = 1 /\ i.new = UsernameBo
                                /\ i.password = PasswordP)}
ChangeEmailInputs ==
    {i \in [id : UserIDs, new : {EmailB, EmailInvalid},
            password : Passwords, execOk : BOOLEAN] :
        i.execOk \/ (i.id = 1 /\ i.new = EmailB /\ i.password = PasswordP)}
DeleteInputs ==
    {i \in [id : UserIDs, password : Passwords, execOk : BOOLEAN] :
        i.execOk \/ (i.id = 1 /\ i.password = PasswordP)}
\* the new passwords ChangePassword is tried with
NewPasswords == {PasswordQ, PasswordShort}
ChangePasswordInputs ==
    {i \in [id : UserIDs, old : Passwords, new : NewPasswords,
            execOk : BOOLEAN] :
        i.execOk \/ (i.id = 1 /\ i.old = PasswordP /\ i.new = PasswordQ)}
RegisterInputs ==
    {i \in [cmd : RegisterCommands, execOk : BOOLEAN] :
        i.execOk \/ i.cmd = [username |-> UsernameAl, email |-> EmailA,
                             password |-> PasswordP]}

\* request p has run a method up to its return or its next repository call
UserBegin(p, call, res) ==
    /\ IF res.next = "return"
       THEN /\ ulast' = Observed(p, [call EXCEPT !.err = res.err])
            /\ uproc' = [uproc EXCEPT ![p] = <<>>]
       ELSE /\ ulast' = NoUserCall
            /\ uproc' = [uproc EXCEPT ![p] =
                            <<[call |-> call, user |-> res.user[1],
                               next |-> res.next]>>]
    /\ UNCHANGED <<now, users, nextUid, registered, passwordChanged, deleted,
                   entVars, taskVars, httpVars>>

\* a row written through UserRepository.Create alone, with a password_hash
\* that is no bcrypt hash, as the repository's tests write it
RepositoryCreate ==
    /\ nextUid < MaxUsers
    /\ \E email \in {EmailA, EmailB} :
        LET restored == NewUserFromDB([id |-> nextUid + 1,
                                       username |-> UsernameAl,
                                       email |-> email,
                                       passwordHash |-> TextHash(PasswordP)])
            created == UserRepoCreate(users, restored.user[1], TRUE) IN
        /\ created.err = NoErr
        /\ users' = created.rows
        /\ deleted' = [deleted EXCEPT !.emails = @ \ {email}]
    /\ nextUid' = nextUid + 1
    /\ ulast' = NoUserCall
    /\ UNCHANGED <<now, uproc, registered, passwordChanged, entVars, taskVars,
                   httpVars>>

\* nextUid counts the users stored so far: the id of a user that Create
\* refused is never seen again
Register(p) ==
    /\ Turn(p)
    /\ uproc[p] = <<>>
    /\ nextUid < MaxUsers
    /\ \E i \in RegisterInputs :
        LET cmd == i.cmd
            execOk == i.execOk
            res == UserServiceRegister(users, cmd.username, cmd.email,
                                       cmd.password, nextUid + 1, execOk)
            made == NewUser(cmd.username, cmd.email, cmd.password,
                            nextUid + 1) IN
        /\ users' = res.rows
        /\ nextUid' = IF res.rows # users THEN nextUid + 1 ELSE nextUid
        /\ registered' = IF res.err = NoErr
                         THEN registered \cup {TrimSpace(cmd.email)}
                         ELSE registered
        /\ deleted' = IF res.err = NoErr
                      THEN [deleted EXCEPT
                               !.emails = @ \ {TrimSpace(cmd.email)}]
                      ELSE deleted
        /\ ulast' = Observed(p, [NoUserCall EXCEPT
                        !.op = "Register", !.email = cmd.email,
                        !.argErr = made.err,
                        !.held = \E r \in users :
                                    r.email = TrimSpace(cmd.email),
                        !.registeredBefore =
                            TrimSpace(cmd.email) \in registered,
                        !.dbOk = execOk,
                        !.err = res.err,
                        !.writeCalled = res.rows # users])
    /\ UNCHANGED <<now, uproc, passwordChanged, entVars, taskVars, httpVars>>

Login(p) ==
    /\ Turn(p)
    /\ uproc[p] = <<>>
    /\ \E i \in LoginInputs :
        LET found == UserRepoFindByEmail(users, i.email, i.execOk)
            res == UserServiceLogin(found, i.password, i.genOk) IN
        ulast' = Observed(p, [NoUserCall EXCEPT
                     !.op = "Login", !.email = i.email,
                     !.password = i.password,
                     !.deletedBefore = i.email \in deleted.emails,
                     !.lookup = UserLookup(found),
                     !.verify = VerifyOutcome(found, i.password),
                     !.dbOk = i.execOk,
                     !.err = res.err, !.token = res.token,
                     !.genCalled = res.genCalled])
    /\ UNCHANGED <<now, users, nextUid, uproc, registered, passwordChanged,
                   deleted, entVars, taskVars, httpVars>>

ChangeUsername(p) ==
    /\ Turn(p)
    /\ uproc[p] = <<>>
    /\ \E i \in ChangeUsernameInputs :
        LET found == UserRepoFindByID(users, i.id, i.execOk) IN
        UserBegin(p,
                  [NoUserCall EXCEPT
                      !.op = "ChangeUsername", !.id = i.id,
                      !.deletedBefore = i.id \in deleted.ids,
                      !.argErr = NewUsername(i.new).err,
                      !.lookup = UserLookup(found),
                      !.verify = VerifyOutcome(found, i.password)],
                  UserServiceChangeUsername(found, i.new, i.password))

ChangeEmail(p) ==
    /\ Turn(p)
    /\ uproc[p] = <<>>
    /\ \E i \in ChangeEmailInputs :
        LET found == UserRepoFindByID(users, i.id, i.execOk) IN
        UserBegin(p,
                  [NoUserCall EXCEPT
                      !.op = "ChangeEmail", !.id = i.id, !.email = i.new,
                      !.deletedBefore = i.id \in deleted.ids,
                      !.argErr = NewEmail(i.new).err,
                      !.lookup = UserLookup(found),
                      !.verify = VerifyOutcome(found, i.password)],
                  UserServiceChangeEmail(found, i.password))

ChangePassword(p) ==
    /\ Turn(p)
    /\ uproc[p] = <<>>
    /\ \E i \in ChangePasswordInputs :
        LET found == UserRepoFindByID(users, i.id, i.execOk) IN
        UserBegin(p,
                  [NoUserCall EXCEPT
                      !.op = "ChangePassword", !.id = i.id,
                      !.password = i.new, !.old = i.old,
                      !.deletedBefore = i.id \in deleted.ids,
                      !.argErr = NewPassword(i.new).err,
                      !.lookup = UserLookup(found),
                      !.verify = VerifyOutcome(found, i.old)],
                  UserServiceChangePassword(found, i.old, i.new))

\* ChangeEmail's FindByEmail and what follows up to the call of Update
ChangeEmailFindByEmail(p) ==
    /\ Turn(p)
    /\ uproc[p] # <<>>
    /\ uproc[p][1].next = "FindByEmail"
    /\ \E execOk \in BOOLEAN :
        LET call == uproc[p][1].call
            byEmail == UserRepoFindByEmail(users, call.email, execOk) IN
        UserBegin(p,
                  [call EXCEPT
                      !.byEmail = UserLookup(byEmail),
                      !.heldByOther = \E r \in users :
                          r.email = call.email /\ r.id # call.id],
                  UserServiceChangeEmailTaken(uproc[p][1].user, byEmail,
                                              call.email))

\* the Update that ends ChangeUsername, ChangeEmail and ChangePassword
UserUpdate(p) ==
    /\ Turn(p)
    /\ uproc[p] # <<>>
    /\ uproc[p][1].next = "Update"
    /\ \E execOk \in BOOLEAN :
        LET call == uproc[p][1].call
            updated == UserRepoUpdate(users, uproc[p][1].user, execOk)
            err == IF call.op = "ChangePassword"
                   THEN UserServiceChangePasswordUpdated(updated.err)
                   ELSE UserServiceUpdated(updated.err) IN
        /\ users' = updated.rows
        /\ passwordChanged' =
                IF call.op = "ChangePassword" /\ err = NoErr
                THEN [passwordChanged EXCEPT ![call.id] =
                         IF call.old # call.password
                         THEN <<[old |-> call.old, new |-> call.password]>>
                         ELSE <<>>]
                ELSE passwordChanged
        /\ ulast' = Observed(p, [call EXCEPT
                        !.dbOk = execOk,
                        !.err = err,
                        !.writeCalled = TRUE])
    /\ uproc' = [uproc EXCEPT ![p] = <<>>]
    /\ UNCHANGED <<now, nextUid, registered, deleted, entVars, taskVars,
                   httpVars>>

Delete(p) ==
    /\ Turn(p)
    /\ uproc[p] = <<>>
    /\ \E i \in DeleteInputs :
        LET found == UserRepoFindByID(users, i.id, i.execOk) IN
        UserBegin(p,
                  [NoUserCall EXCEPT
                      !.op = "Delete", !.id = i.id,
                      !.deletedBefore = i.id \in deleted.ids,
                      !.lookup = UserLookup(found),
                      !.verify = VerifyOutcome(found, i.password)],
                  UserServiceDelete(found, i.password))

\* the repository's Delete that ends UserService.Delete
UserDelete(p) ==
    /\ Turn(p)
    /\ uproc[p] # <<>>
    /\ uproc[p][1].next = "Delete"
    /\ \E execOk \in BOOLEAN :
        LET removed == UserRepoDelete(users, uproc[p][1].user.id, execOk) IN
        /\ users' = removed.rows
        /\ deleted' = IF removed.err = NoErr
                      THEN [ids |-> deleted.ids \cup {uproc[p][1].user.id},
                            emails |-> deleted.emails \cup
                                {r.email : r \in users \ removed.rows}]
                      ELSE deleted
        /\ passwordChanged' =
                IF removed.err = NoErr
                THEN [passwordChanged EXCEPT ![uproc[p][1].user.id] = <<>>]
                ELSE passwordChanged
        /\ ulast' = Observed(p, [uproc[p][1].call EXCEPT
                        !.dbOk = execOk,
                        !.err = UserServiceDeleted(removed.err),
                        !.writeCalled = TRUE])
    /\ uproc' = [uproc EXCEPT ![p] = <<>>]
    /\ UNCHANGED <<now, nextUid, registered, entVars, taskVars, httpVars>>

UserNext ==
    \/ RepositoryCreate
    \/ \E p \in Procs :
        \/ Register(p)
        \/ Login(p)
        \/ ChangeUsername(p)
        \/ ChangeEmail(p)
        \/ ChangePassword(p)
        \/ ChangeEmailFindByEmail(p)
        \/ UserUpdate(p)
        \/ Delete(p)
        \/ UserDelete(p)

---------------------------------------------------------------------------
(* The HTTP handlers of package auth and package user.  ServeHTTP runs to  *)
(* its end in one step, one request at a time; the services behind the     *)
(* interfaces Registrar, Authenticator and Updater are UserService over    *)
(* table users.  The handlers name two sentinels package services of       *)
(* user_service.go does not declare: ErrUserEmailAlreadyTaken, taken here  *)
(* as the later name of ErrEmailAlreadyTaken, and                          *)
(* ErrUserChangeUsernameFailed, which ChangeUsername never returns.        *)

\* http.ResponseWriter: the status line is sent once and a later
\* WriteHeader is ignored; Write sends it with 200 if none was sent and
\* appends its data to the body
NewRecorder == [wroteHeader |-> FALSE, code |-> 0, body |-> <<>>]

WriteHeader(w, code) ==
    IF w.wroteHeader THEN w
    ELSE [w EXCEPT !.wroteHeader = TRUE, !.code = code]

Write(w, data) == [WriteHeader(w, 200) EXCEPT !.body = Append(@, data)]

\* a JSON document of one key
Doc(key, value) == [key |-> key, value |-> value]

\* handlers.WriteError for an error that is no validator.ValidationErrors
WriteError(w, code, message) ==
    Write(WriteHeader(w, code), Doc("error", message))

\* handlers.WriteError for validator.ValidationErrors: the fields refused
WriteValidationErrors(w, code, fields) ==
    Write(WriteHeader(w, code), Doc("errors", fields))

\* handlers.WriteJSON
WriteJSON(w, code, v) == Write(WriteHeader(w, code), v)

\* err.Error(): the names on the chain stand for the text
ErrorText(err) == err

\* errorsx.IsAny
IsAny(err, targets) == \E target \in targets : ErrorsIs(err, target)

\* the tags of go-playground/validator the requests use
Required(s) == s # <<>>
PrintASCII(s) == \A i \in 1..Len(s) : s[i] \in 32..126
EmailTag(s) ==
    \E i \in 1..Len(s) :
        /\ s[i] = 64
        /\ IsDotAtom(SubSeq(s, 1, i - 1))
        /\ IsDotAtom(SubSeq(s, i + 1, Len(s)))
        /\ \E j \in (i + 1)..Len(s) : s[j] = 46

Refused(field, ok) == IF ok THEN <<>> ELSE <<field>>

\* validate.Struct for RegisterRequest, LoginRequest and UpdateRequest
RegisterRequestInvalid(req) ==
    Refused("Username", Required(req.username))
    \o Refused("Email", Required(req.email) /\ EmailTag(req.email))
    \o Refused("Password", Required(req.password) /\ PrintASCII(req.password))

LoginRequestInvalid(req) ==
    Refused("Email", Required(req.email) /\ EmailTag(req.email))
    \o Refused("Password", Required(req.password) /\ PrintASCII(req.password))

UpdateRequestInvalid(req) ==
    Refused("Email", req.email = <<>> \/ EmailTag(req.email))
    \o Refused("Password", Required(req.password) /\ PrintASCII(req.password))

\* handlers.DecodeAndValidate; invalid is what validate.Struct refuses
DecodeAndValidate(w, req, invalid) ==
    IF req.json = "empty"
    THEN [ok |-> FALSE,
          w |-> WriteError(w, 400, <<"request body is empty">>)]
    ELSE IF req.json = "malformed"
    THEN [ok |-> FALSE,
          w |-> WriteError(w, 400, <<"failed to decode request body">>)]
    ELSE IF invalid # <<>>
    THEN [ok |-> FALSE, w |-> WriteValidationErrors(w, 400, invalid)]
    ELSE [ok |-> TRUE, w |-> w]

\* what a handler leaves: the response, table users, and the errors the
\* service calls it made returned, in order
Handled(w, rows, errs) == [w |-> w, rows |-> rows, errs |-> errs]

\* RegisterHandler.ServeHTTP from the answer of Register on
RegisterAnswered(w, req, res) ==
    IF res.err # NoErr
    THEN IF IsAny(res.err, {"ErrUserExists"})
         THEN Handled(WriteError(w, 409, ErrorText(res.err)), res.rows,
                      <<res.err>>)
         ELSE Handled(WriteError(w, 500, ErrorText(res.err)), res.rows,
                      <<res.err>>)
    ELSE Handled(WriteJSON(w, 201, Doc("user", <<req.username, req.email>>)),
                 res.rows, <<res.err>>)

\* RegisterHandler.ServeHTTP from the answer of DecodeAndValidate on
RegisterDecoded(decoded, req, rows, id, execOk) ==
    IF ~decoded.ok THEN Handled(decoded.w, rows, <<>>)
    ELSE RegisterAnswered(decoded.w, req,
                          UserServiceRegister(rows, req.username, req.email,
                                              req.password, id, execOk))

\* RegisterHandler.ServeHTTP
RegisterHandlerServeHTTP(w, req, rows, id, execOk) ==
    RegisterDecoded(DecodeAndValidate(w, req, RegisterRequestInvalid(req)),
                    req, rows, id, execOk)

\* a LoginHandler that told the caller which of the two it was
LoginDeniedTellsApart(err) ==
    IF ErrorsIs(err, "ErrUserNotFound") THEN <<"user was not found">>
    ELSE <<"invalid credentials">>

\* the error LoginHandler answers ErrUserNotFound and ErrUserUnauthorized
\* with
LoginDenied(err) == <<"invalid credentials">>

\* the branch of LoginHandler for the other errors of Login: it writes
\* the 500 and does not return
LoginFailed(w, err) ==
    IF err # NoErr THEN WriteError(w, 500, ErrorText(err)) ELSE w

\* LoginHandler.ServeHTTP from the answer of Login on
LoginAnswered(w, rows, res) ==
    IF res.err # NoErr
         /\ IsAny(res.err, {"ErrUserNotFound", "ErrUserUnauthorized"})
    THEN Handled(WriteError(w, 401, LoginDenied(res.err)), rows, <<res.err>>)
    ELSE Handled(WriteJSON(LoginFailed(w, res.err), 200,
                           Doc("token", res.token)),
                 rows, <<res.err>>)

\* LoginHandler.ServeHTTP from the answer of DecodeAndValidate on
LoginDecoded(decoded, req, rows, execOk, genOk) ==
    IF ~decoded.ok THEN Handled(decoded.w, rows, <<>>)
    ELSE LoginAnswered(decoded.w, rows,
                       UserServiceLogin(
                           UserRepoFindByEmail(rows, req.email, execOk),
                           req.password, genOk))

\* LoginHandler.ServeHTTP
LoginHandlerServeHTTP(w, req, rows, execOk, genOk) ==
    LoginDecoded(DecodeAndValidate(w, req, LoginRequestInvalid(req)),
                 req, rows, execOk, genOk)

\* the end of ChangeUsername and ChangeEmail: part is what the method
\* came to before Update, execOk whether the database carries Update out
ChangeStored(rows, part, execOk) ==
    IF part.next = "return" THEN [err |-> part.err, rows |-> rows]
    ELSE [err |-> UserServiceUpdated(
                      UserRepoUpdate(rows, part.user[1], execOk).err),
          rows |-> UserRepoUpdate(rows, part.user[1], execOk).rows]

\* UserService.ChangeUsername, from FindByID to the end
ChangeUsernameCall(rows, id, newUsername, password, ok) ==
    ChangeStored(rows,
                 UserServiceChangeUsername(UserRepoFindByID(rows, id, ok[1]),
                                           newUsername, password),
                 ok[2])

\* UserService.ChangeEmail from the answer of Verify on
ChangeEmailVerified(rows, part, newEmail, ok) ==
    IF part.next = "return" THEN [err |-> part.err, rows |-> rows]
    ELSE ChangeStored(rows,
                      UserServiceChangeEmailTaken(
                          part.user[1],
                          UserRepoFindByEmail(rows, newEmail, ok[2]),
                          newEmail),
                      ok[3])

\* UserService.ChangeEmail, from FindByID to the end
ChangeEmailCall(rows, id, newEmail, password, ok) ==
    ChangeEmailVerified(rows,
                        UserServiceChangeEmail(
                            UserRepoFindByID(rows, id, ok[1]), password),
                        newEmail, ok)

\* the response UpdateHandler writes for an error of ChangeUsername
UsernameRefused(w, err) ==
    IF IsAny(err, {"ErrUserNotFound"})
    THEN WriteError(w, 404, <<"user not found">>)
    ELSE IF IsAny(err, {"ErrUserUnauthorized"})
    THEN WriteError(w, 401, <<"unauthorized">>)
    ELSE IF IsAny(err, {"ErrUserChangeUsernameFailed"})
    THEN WriteError(w, 500, <<"username change failed">>)
    ELSE WriteError(w, 400, ErrorText(err))

\* the response UpdateHandler writes for an error of ChangeEmail
EmailRefused(w, err) ==
    IF IsAny(err, {"ErrUserNotFound"})
    THEN WriteError(w, 404, <<"user not found">>)
    ELSE IF IsAny(err, {"ErrUserUnauthorized"})
    THEN WriteError(w, 401, <<"password incorrect">>)
    ELSE IF IsAny(err, {"ErrEmailAlreadyTaken"})
    THEN WriteError(w, 409, <<"email already taken">>)
    ELSE IF IsAny(err, {"ErrUserChangeEmailFailed"})
    THEN WriteError(w, 500, <<"email change failed">>)
    ELSE WriteError(w, 400, ErrorText(err))

\* UpdateHandler.ServeHTTP from the answer of ChangeEmail on; errs are
\* the errors of the calls before it
UpdateMailed(w, req, errs, mailed) ==
    IF mailed.err # NoErr
    THEN Handled(EmailRefused(w, mailed.err), mailed.rows,
                 Append(errs, mailed.err))
    ELSE Handled(WriteJSON(w, 200, Doc("user", <<req.username, req.email>>)),
                 mailed.rows,
                 IF req.email # <<>> THEN Append(errs, NoErr) ELSE errs)

\* UpdateHandler.ServeHTTP from the answer of ChangeUsername on
UpdateNamed(w, req, userID, okEmail, named) ==
    IF named.err # NoErr
    THEN Handled(UsernameRefused(w, named.err), named.rows, <<named.err>>)
    ELSE UpdateMailed(w, req,
                      IF req.username # <<>> THEN <<NoErr>> ELSE <<>>,
                      IF req.email # <<>>
                      THEN ChangeEmailCall(named.rows, userID, req.email,
                                           req.password, okEmail)
                      ELSE [err |-> NoErr, rows |-> named.rows])

\* UpdateHandler.ServeHTTP from the answer of DecodeAndValidate on
UpdateDecoded(decoded, req, userID, rows, okUsername, okEmail) ==
    IF ~decoded.ok THEN Handled(decoded.w, rows, <<>>)
    ELSE IF req.username = <<>> /\ req.email = <<>>
    THEN Handled(WriteError(decoded.w, 400,
                            <<"username or email required">>),
                 rows, <<>>)
    ELSE UpdateNamed(decoded.w, req, userID, okEmail,
                     IF req.username # <<>>
                     THEN ChangeUsernameCall(rows, userID, req.username,
                                             req.password, okUsername)
                     ELSE [err |-> NoErr, rows |-> rows])

\* UpdateHandler.ServeHTTP; userID is the value the request's context
\* holds under "userID"
UpdateHandlerServeHTTP(w, req, userID, rows, okUsername, okEmail) ==
    UpdateDecoded(DecodeAndValidate(w, req, UpdateRequestInvalid(req)),
                  req, userID, rows, okUsername, okEmail)

\* the requests sent
EmailAY == <<97, 64, 120, 46, 121>>
EmailBY == <<98, 64, 120, 46, 121>>

Body(username, email, password) ==
    [json |-> "object", username |-> username, email |-> email,
     password |-> password]
EmptyBody == [Body(<<>>, <<>>, <<>>) EXCEPT !.json = "empty"]
MalformedBody == [Body(<<>>, <<>>, <<>>) EXCEPT !.json = "malformed"]

RegisterRequests ==
    {Body(UsernameAl, email, PasswordP) : email \in {EmailAY, EmailBY}}
    \cup {Body(UsernameShort, EmailAY, PasswordP), MalformedBody}

LoginRequests ==
    {Body(<<>>, EmailAY, password) : password \in Passwords}
    \cup {Body(<<>>, EmailInvalid, PasswordP), EmptyBody}

UpdateRequests ==
    {Body(UsernameBo, EmailBY, password) : password \in Passwords}
    \cup {Body(UsernameBo, <<>>, PasswordP), Body(<<>>, EmailBY, PasswordP),
          Body(<<>>, <<>>, PasswordP)}

\* the repository call of a request the database fails: none (0), or the
\* one of that number counted from the first of ChangeUsername
Fails == 0..5
OkUsername(fail) == <<fail # 1, fail # 2>>
OkEmail(fail) == <<fail # 3, fail # 4, fail # 5>>

\* whether the database answers FindByEmail and the provider signs
LoginOutcomes ==
    {o \in [execOk : BOOLEAN, genOk : BOOLEAN] : o.execOk \/ o.genOk}

\* a request served: the handler, the body, the user id of the context,
\* the errors of the service calls, the response, and the rows of that
\* user id before and after
Exchange(handler, req, userID, res, before) ==
    [handler |-> handler, req |-> req, userID |-> userID, errs |-> res.errs,
     resp |-> [code |-> res.w.code, body |-> res.w.body],
     before |-> {r \in before : r.id = userID},
     after |-> {r \in res.rows : r.id = userID}]

\* what `logins` keeps of a login: the request, the error of Login and
\* the response
LoginSeen(req, res) ==
    [email |-> req.email, password |-> req.password, err |-> res.errs[1],
     resp |-> [code |-> res.w.code, body |-> res.w.body]]

\* Login refused the credentials
Denied(errs) ==
    /\ errs # <<>>
    /\ IsAny(errs[1], {"ErrUserNotFound", "ErrUserUnauthorized"})

\* the state a handler leaves
Served(handler, req, userID, res) ==
    /\ users' = res.rows
    /\ nextUid' = IF handler = "Register" /\ res.rows # users
                  THEN nextUid + 1 ELSE nextUid
    /\ served' = <<Exchange(handler, req, userID, res, users)>>
    /\ logins' = IF handler = "Login" /\ Denied(res.errs)
                 THEN <<LoginSeen(req, res)>>
                      \o SubSeq(logins, 1, IF logins = <<>> THEN 0 ELSE 1)
                 ELSE logins

ServeRegister ==
    /\ nextUid < MaxUsers
    /\ \E req \in RegisterRequests, execOk \in BOOLEAN :
        Served("Register", req, 0,
               RegisterHandlerServeHTTP(NewRecorder, req, users, nextUid + 1,
                                        execOk))
    /\ UNCHANGED <<now, uproc, ulast, registered, passwordChanged, deleted,
                   entVars, taskVars>>

ServeLogin ==
    /\ \E req \in LoginRequests, o \in LoginOutcomes :
        Served("Login", req, 0,
               LoginHandlerServeHTTP(NewRecorder, req, users, o.execOk,
                                     o.genOk))
    /\ UNCHANGED <<now, uproc, ulast, registered, passwordChanged, deleted,
                   entVars, taskVars>>

ServeUpdate ==
    /\ \E req \in UpdateRequests, userID \in UserIDs, fail \in Fails :
        Served("Update", req, userID,
               UpdateHandlerServeHTTP(NewRecorder, req, userID, users,
                                      OkUsername(fail), OkEmail(fail)))
    /\ UNCHANGED <<now, uproc, ulast, registered, passwordChanged, deleted,
                   entVars, taskVars>>

HandlerNext ==
    \/ ServeRegister
    \/ ServeLogin
    \/ ServeUpdate

---------------------------------------------------------------------------
(* Specifications. *)

TaskInit ==
    /\ tasks = {}
    /\ nextTid = 0
    /\ dueLater = {}
    /\ tproc = [p \in Procs |-> <<>>]
    /\ tlast = NoTaskCall

UserInit ==
    /\ users = {}
    /\ nextUid = 0
    /\ uproc = [p \in Procs |-> <<>>]
    /\ ulast = NoUserCall
    /\ registered = {}
    /\ passwordChanged = [id \in UserIDs |-> <<>>]
    /\ deleted = [ids |-> {}, emails |-> {}]

HandlerInit ==
    /\ served = <<>>
    /\ logins = <<>>

Init ==
    /\ now = 0
    /\ EntInit
    /\ TaskInit
    /\ UserInit
    /\ HandlerInit

TaskEntitySpec == Init /\ [][EntNext]_vars

TaskSpec == Init /\ [][TaskNext]_vars

TaskRaceSpec == Init /\ [][TaskRaceNext]_vars

UserSpec == Init /\ [][UserNext]_vars

HandlerSpec == Init /\ [][HandlerNext]_vars

---------------------------------------------------------------------------
(* Claims about the Task entity, under TaskEntitySpec. *)

\* C2: whatever constructor made the task and whatever methods were called
\* on it since, successfully or not, IsCompleted() is true exactly when
\* CompletedAt() is not nil.
C2_CompletedIffCompletedAt ==
    ent # <<>> => (IsCompleted(ent[1]) <=> CompletedAt(ent[1]) # <<>>)

\* C2's case: a call has just failed on a task that is completed, by
\* Complete or as NewTaskFromDB restored it.
C2_Witness ==
    /\ ent # <<>>
    /\ entCall.op \in {"ChangeTitle", "ChangeDescription", "SetDeadline"}
    /\ entCall.err # NoErr
    /\ IsCompleted(ent[1])
    /\ CompletedAt(ent[1]) = <<MaxTime>>

\* C10: Complete leaves the task completed; on a task that is already
\* completed (by an earlier Complete or as loaded) it keeps the CompletedAt
\* recorded before, and on an open task it records the time of the call.
C10_CompleteIdempotent ==
    entCall.op = "Complete" =>
        /\ IsCompleted(ent[1])
        /\ IF IsCompleted(entPrev[1])
           THEN CompletedAt(ent[1]) = CompletedAt(entPrev[1])
           ELSE CompletedAt(ent[1]) = <<entCall.at>>

\* C10's case: Complete called again on a completed task after the clock
\* has moved on from the recorded completion time.
C10_Witness ==
    /\ entCall.op = "Complete"
    /\ IsCompleted(entPrev[1])
    /\ CompletedAt(entPrev[1])[1] < entCall.at
    /\ CompletedAt(ent[1]) = CompletedAt(entPrev[1])

\* C11: Reopen on a completed task leaves IsCompleted false and
\* CompletedAt nil and every other field as it was; Reopen on an open task
\* leaves the whole task as it was.
C11_ReopenClearsCompletion ==
    entCall.op = "Reopen" =>
        /\ ~IsCompleted(ent[1])
        /\ CompletedAt(ent[1]) = <<>>
        /\ ent[1] = [entPrev[1] EXCEPT !.isCompleted = FALSE,
                                       !.completedAt = <<>>]
        /\ ~IsCompleted(entPrev[1]) => ent = entPrev

\* C11's case: a completed task with a deadline was reopened.
C11_Witness ==
    /\ entCall.op = "Reopen"
    /\ IsCompleted(entPrev[1])
    /\ entPrev[1].deadline # <<>>
    /\ ~IsCompleted(ent[1])
    /\ CompletedAt(ent[1]) = <<>>

\* C12: NewTaskFromDB returns a nil task and an error matching
\* ErrTaskFailedCreateFromDB for every row whose isCompleted and completedAt
\* contradict each other, whatever its other fields are.
C12_ContradictionRefused ==
    (entCall.op = "NewTaskFromDB" /\ entCall.contradict) =>
        /\ entCall.nilTask
        /\ ErrorsIs(entCall.err, "ErrTaskFailedCreateFromDB")

\* C12's case: a contradicting row whose title or deadline a value object
\* rejects as well was refused with ErrTaskFailedCreateFromDB.
C12_Witness ==
    /\ entCall.op = "NewTaskFromDB"
    /\ entCall.contradict
    /\ entCall.rejected
    /\ entCall.nilTask
    /\ ErrorsIs(entCall.err, "ErrTaskFailedCreateFromDB")

\* C26: IsOverdue is true exactly when the task has a deadline, the
\* deadline is strictly before the current time and the task is not
\* completed.  So after Complete it is false, after RemoveDeadline it is
\* false, and after Reopen of a task whose deadline had passed it is true.
C26_OverdueExactly ==
    ent # <<>> =>
        LET task == ent[1] IN
        /\ TaskIsOverdue(task, now) <=>
                (/\ task.deadline # <<>>
                 /\ task.deadline[1] < now
                 /\ ~task.isCompleted)
        /\ entCall.op \in {"Complete", "RemoveDeadline"} =>
                ~TaskIsOverdue(task, now)
        /\ (/\ entCall.op = "Reopen"
            /\ entPrev # <<>>
            /\ entPrev[1].deadline # <<>>
            /\ entPrev[1].deadline[1] < entCall.at) =>
                TaskIsOverdue(task, now)

\* a task overdue when Complete was called, completed and reopened
C26_Witness ==
    /\ ent # <<>>
    /\ entPrev # <<>>
    /\ entCall.op = "Reopen"
    /\ entPrev[1].isCompleted
    /\ TaskIsOverdue(entPrev[1], entCall.at) = FALSE
    /\ entPrev[1].deadline # <<>>
    /\ entPrev[1].deadline[1] < entPrev[1].completedAt[1]
    /\ TaskIsOverdue(ent[1], now)

\* the fields of Task
TaskFields ==
    {"id", "owner", "title", "description", "deadline", "isCompleted",
     "completedAt"}

\* C27: a method of Task changes its own fields only: ChangeTitle the
\* title, ChangeDescription the description, SetDeadline and
\* RemoveDeadline the deadline, Complete and Reopen isCompleted and
\* completedAt; none changes id or owner.
C27_OnlyOwnFields ==
    (/\ entCall.op \in {"ChangeTitle", "ChangeDescription", "SetDeadline",
                        "RemoveDeadline", "Complete", "Reopen"}
     /\ entPrev # <<>>
     /\ ent # <<>>) =>
        \A f \in TaskFields \ OwnColumns(entCall.op) :
            ent[1][f] = entPrev[1][f]

\* RemoveDeadline took the deadline from a completed task and left the
\* completion as it was
C27_Witness ==
    /\ entCall.op = "RemoveDeadline"
    /\ entPrev # <<>>
    /\ ent # <<>>
    /\ entPrev[1].deadline # <<>>
    /\ ent[1].deadline = <<>>
    /\ ent[1].isCompleted
    /\ ent[1].completedAt = entPrev[1].completedAt

\* C14: NewDeadline, as Task.SetDeadline calls it, fails with
\* ErrDeadlineBeforeNow for every time at or before the clock, the clock's
\* own reading included, and for every later time succeeds with a Deadline
\* whose Time() is that time.
C14_DeadlineMustBeAfterNow ==
    entCall.op = "SetDeadline" =>
        IF entCall.arg[1] <= entCall.at
        THEN entCall.err = Sentinel("ErrDeadlineBeforeNow")
        ELSE /\ entCall.err = NoErr
             /\ ent[1].deadline = entCall.arg

---------------------------------------------------------------------------
(* Claims about TaskService, under TaskSpec. *)

Mutations ==
    {"ChangeTitle", "ChangeDescription", "SetDeadline", "RemoveDeadline",
     "Complete", "Reopen"}
Validating == {"ChangeTitle", "ChangeDescription", "SetDeadline"}

\* a mutation returned whose FindByID returned the task, called by someone
\* who is not its owner
ByStranger ==
    /\ tlast.op \in Mutations
    /\ tlast.lookup = "found"
    /\ tlast.owner # <<tlast.caller>>

\* a mutation returned whose FindByID returned the task, called by its owner
ByOwner ==
    /\ tlast.op \in Mutations
    /\ tlast.lookup = "found"
    /\ tlast.owner = <<tlast.caller>>

\* a row of table tasks is changed only by the Update of a call on that
\* task whose requestingOwnerID is the row's owner
OnlyOwnerWrites ==
    \A r \in tasks :
        r \notin tasks' =>
            \E p \in Procs :
                /\ tproc[p] # <<>>
                /\ tproc'[p] = <<>>
                /\ tproc[p][1].call.id = r.id
                /\ tproc[p][1].call.caller = r.owner

\* C1: the stored title, description, deadline and completion state of a
\* task change only by the Update of a mutation called with the task's owner
\* as requestingOwnerID; a mutation that finds the task and is called with
\* another requestingOwnerID returns ErrTaskAccessDenied and never calls
\* Update.
C1_OnlyOwnerMutates ==
    /\ [](ByStranger =>
            /\ tlast.err = Sentinel("ErrTaskAccessDenied")
            /\ ~tlast.updateCalled)
    /\ [][OnlyOwnerWrites]_vars

\* C1's case: the owner's ChangeTitle has changed the stored title, and a
\* stranger's mutation of that task has just been refused.
C1_Witness ==
    /\ ByStranger
    /\ tlast.err = Sentinel("ErrTaskAccessDenied")
    /\ \E r \in tasks : r.id = tlast.id /\ r.title = <<98>>

\* C8: ChangeTitle, ChangeDescription and SetDeadline called by someone who
\* is not the owner of the task found, with a new value the value object
\* rejects, return ErrTaskAccessDenied and not the validation error.
C8_DeniedBeforeValidation ==
    (ByStranger /\ tlast.op \in Validating /\ tlast.argErr # NoErr) =>
        /\ tlast.err = Sentinel("ErrTaskAccessDenied")
        /\ tlast.err # tlast.argErr

\* C8's case: a stranger's SetDeadline with a deadline in the past was
\* refused.
C8_Witness ==
    /\ ByStranger
    /\ tlast.op = "SetDeadline"
    /\ tlast.argErr = Sentinel("ErrDeadlineBeforeNow")
    /\ tlast.err = Sentinel("ErrTaskAccessDenied")

C13_CreateRefusedBeforeRepository ==
    tlast.op = "Create" =>
        /\ tlast.notFuture =>
            /\ tlast.err = Sentinel("ErrDeadlineBeforeNow")
            /\ ~tlast.createCalled
        /\ tlast.argErr # NoErr =>
            /\ tlast.err = tlast.argErr
            /\ ~tlast.createCalled

C19_RepeatIsNoOp ==
    (/\ tlast.op \in {"Complete", "Reopen"}
     /\ ~tlast.dbFailed
     /\ tlast.rowOwned
     /\ tlast.rowCompleted = <<tlast.op = "Complete">>)
        => tlast.err = NoErr /\ ~tlast.updateCalled

C22_OperableAfterDeadline ==
    (/\ tlast.op \in {"Complete", "RemoveDeadline", "SetDeadline"}
     /\ tlast.id \in dueLater
     /\ tlast.rowOwned
     /\ tlast.argErr = NoErr
     /\ ~tlast.dbFailed
     /\ ~tlast.updateFailed)
        => tlast.err = NoErr

---------------------------------------------------------------------------
(* Claims about UserService, under UserSpec. *)

Sensitive == {"ChangeUsername", "ChangeEmail", "Delete"}

\* the sentinel a sensitive method wraps its unexpected errors in;
\* ChangeUsername has none of its own and uses that of ChangeEmail
UserFailedSentinel(op) ==
    IF op = "Delete" THEN "ErrUserDeleteFailed" ELSE "ErrUserChangeEmailFailed"

\* C3: Login returns a token and no error only if a stored user has the
\* email given and Verify reports that the password given matches that
\* user's hash, and the token is then the one the provider generated for
\* that user's id; when FindByEmail answers not-found Login returns
\* ErrUserNotFound, when Verify answers mismatch it returns
\* ErrUserUnauthorized, and in both cases the token provider is not called.
C3_LoginOnlyOnMatch ==
    ulast.op = "Login" =>
        /\ ulast.err = NoErr =>
            /\ ulast.genCalled
            /\ \E u \in users :
                /\ u.email = ulast.email
                /\ Verify(u.passwordHash, ulast.password) = NoErr
                /\ ulast.token = Generate(u.id, TRUE).token
        /\ ulast.err # NoErr => ulast.token = <<>>
        /\ ulast.lookup = "notfound" =>
            /\ ulast.err = Sentinel("ErrUserNotFound")
            /\ ~ulast.genCalled
        /\ (ulast.lookup = "found" /\ ulast.verify = "mismatch") =>
            /\ ulast.err = Sentinel("ErrUserUnauthorized")
            /\ ~ulast.genCalled

\* C3's case: of two stored users, the second logged in and got the token
\* of the second.
C3_Witness ==
    /\ ulast.op = "Login"
    /\ ulast.err = NoErr
    /\ Cardinality(users) = 2
    /\ ulast.token = Generate(2, TRUE).token

\* C4: ChangeUsername, ChangeEmail and Delete call the repository's Update
\* or Delete only after Verify reported a match; on a mismatch they return
\* ErrUserUnauthorized, on a Verify that failed they return an error
\* wrapping the method's failed sentinel, and in neither case is Update or
\* Delete called.
C4_WriteOnlyAfterMatch ==
    (ulast.op \in Sensitive /\ ulast.lookup = "found") =>
        /\ ulast.writeCalled => ulast.verify = "match"
        /\ ulast.verify = "mismatch" =>
            ulast.err = Sentinel("ErrUserUnauthorized")
        /\ ulast.verify = "failed" =>
            ErrorsIs(ulast.err, UserFailedSentinel(ulast.op))

\* C5: ChangeEmail for a stored user, with the password that matches and a
\* new email NewEmail accepts and FindByEmail answers ErrUserRepoNotFound
\* for, returns nil and the stored user's email is the new email, unless
\* the database fails the Update.
C5_ChangeEmailToUnusedSucceeds ==
    (/\ ulast.op = "ChangeEmail"
     /\ ulast.lookup = "found"
     /\ ulast.verify = "match"
     /\ ulast.argErr = NoErr
     /\ ulast.byEmail = "notfound"
     /\ ulast.dbOk) =>
        /\ ulast.err = NoErr
        /\ \E u \in users :
            u.id = ulast.id /\ u.email = TrimSpace(ulast.email)

\* a Register that the value objects accept and the database carried out
\* the INSERT of
RegisterReachedCreate ==
    /\ ulast.op = "Register"
    /\ ulast.argErr = NoErr
    /\ ulast.dbOk

\* Register returned ErrUserExists and left table users as it was
RegisterRefused ==
    /\ ulast.err = Sentinel("ErrUserExists")
    /\ ~ulast.writeCalled

\* C6 as stated: once a Register with email E has succeeded, every later
\* Register with E returns ErrUserExists and leaves the stored users
\* unchanged.
C6_RegisterAgainRefused ==
    (RegisterReachedCreate /\ ulast.registeredBefore) => RegisterRefused

\* C6, amended: a Register with an email that a stored user holds at the
\* time of the call returns ErrUserExists and leaves the stored users
\* unchanged.
C6_RegisterHeldEmailRefused ==
    (RegisterReachedCreate /\ ulast.held) => RegisterRefused

\* C6's case: a Register with an email, padded with a space, that an
\* earlier Register stored a user with was refused.
C6_Witness ==
    /\ RegisterReachedCreate
    /\ ulast.registeredBefore
    /\ ulast.held
    /\ ulast.email = EmailAPadded
    /\ RegisterRefused

C15_ChangePasswordAllOrNothing ==
    /\ \A u \in users : \A old \in Passwords, new \in NewPasswords :
            (Verify(u.passwordHash, old) # NoErr \/ NewPassword(new).err # NoErr)
                => LET res == UserChangePassword(u, old, new) IN
                   res.err # NoErr /\ res.user = u
    /\ (/\ ulast.op = "ChangePassword"
        /\ ulast.lookup = "found"
        /\ ulast.verify # "match" \/ ulast.argErr # NoErr)
            => ulast.err # NoErr /\ ~ulast.writeCalled

\* C15's case: a ChangePassword with an old password that does not match
\* the stored bcrypt hash, and a valid new one, was refused before Update.
C15_Witness ==
    /\ ulast.op = "ChangePassword"
    /\ ulast.verify = "mismatch"
    /\ ulast.argErr = NoErr
    /\ ulast.err = Sentinel("ErrPassowrdNotMatch")
    /\ ~ulast.writeCalled
    /\ \E u \in users : u.id = ulast.id /\ u.passwordHash[1] = "bcrypt"

\* C16: while a user is stored whose latest successful ChangePassword
\* replaced a password by a different one, a Login with the user's email
\* that the database answers accepts the new password (the token provider
\* is asked for a token) and answers the old one with ErrUserUnauthorized.
C16_NewPasswordLogsIn ==
    (ulast.op = "Login" /\ ulast.dbOk) =>
        \A u \in users :
            (u.email = ulast.email /\ passwordChanged[u.id] # <<>>) =>
                LET c == passwordChanged[u.id][1] IN
                /\ ulast.password = c.new => ulast.genCalled
                /\ ulast.password = c.old =>
                        ulast.err = Sentinel("ErrUserUnauthorized")

\* C17: once a Delete has returned nil the user is gone for good.  A call
\* made afterwards that the database answers returns ErrUserNotFound and
\* writes nothing: a Login with the email of the deleted user, for as long
\* as no user has been stored with that email again, and a ChangeUsername,
\* ChangeEmail, ChangePassword or Delete with the id of the deleted user.
C17_DeletedUserNotFound ==
    (/\ ulast.op \in {"Login", "ChangeUsername", "ChangeEmail",
                      "ChangePassword", "Delete"}
     /\ ulast.deletedBefore
     /\ ulast.dbOk
     /\ ulast.lookup # "failed")
        => /\ ulast.lookup = "notfound"
           /\ ulast.err = Sentinel("ErrUserNotFound")
           /\ ~ulast.writeCalled
           /\ ~ulast.genCalled

\* C17's case: a user was deleted while another stays stored, and a Login
\* with the email of the deleted user was answered ErrUserNotFound.
C17_Witness ==
    /\ ulast.op = "Login"
    /\ ulast.deletedBefore
    /\ ulast.dbOk
    /\ ulast.err = Sentinel("ErrUserNotFound")
    /\ users # {}
    /\ deleted.ids # {}

\* C20: a ChangeUsername, ChangeEmail or ChangePassword that loaded the
\* user and whose Update, carried out by the database, found no row of
\* that id any more returns ErrUserNotFound.
C20_VanishedRowIsNotFound ==
    (/\ ulast.op \in {"ChangeUsername", "ChangeEmail", "ChangePassword"}
     /\ ulast.lookup = "found"
     /\ ulast.writeCalled
     /\ ulast.dbOk
     /\ ~\E r \in users : r.id = ulast.id)
        => ErrorsIs(ulast.err, "ErrUserNotFound")

\* C23: a ChangeEmail with the matching password that reaches FindByEmail
\* returns ErrEmailAlreadyTaken exactly when a stored account other than
\* the one being changed holds the new email; the account's own email is
\* not reported as taken.
C23_TakenOnlyByAnother ==
    (/\ ulast.op = "ChangeEmail"
     /\ ulast.verify = "match"
     /\ ulast.byEmail # "none") =>
        (ErrorsIs(ulast.err, "ErrEmailAlreadyTaken") <=> ulast.heldByOther)

\* the sentinel each UserService method has for its unexpected failures
OwnFailedSentinel(op) ==
    CASE op = "Register" -> "ErrUserRegisterFailed"
      [] op = "Login" -> "ErrUserLoginFailed"
      [] op = "ChangePassword" -> "ErrUserChangePasswordFailed"
      [] OTHER -> UserFailedSentinel(op)

\* a repository call of the last method failed with a database error
RepositoryFailed ==
    \/ ulast.lookup = "failed"
    \/ ulast.byEmail = "failed"
    \/ ulast.writeCalled /\ ~ulast.dbOk

\* C24: when a UserService method fails because a repository call failed
\* unexpectedly, the error returned matches the method's failed sentinel
\* and the cause, the database error, is still found by unwrapping it;
\* Register too wraps the cause of a failed Create in ErrUserRegisterFailed.
C24_CauseStaysOnChain ==
    (ulast.op # "none" /\ RepositoryFailed) =>
        /\ ErrorsIs(ulast.err, OwnFailedSentinel(ulast.op))
        /\ ErrorsIs(ulast.err, "*pq.Error")

\* the sentinels the repositories answer with
RepoSentinels ==
    {"ErrUserRepoExists", "ErrUserRepoNotFound", "ErrTaskRepoExists",
     "ErrTaskRepoNotFound", "ErrTaskRepoOwnerNotFound"}

NoRepoSentinel(err) == \A name \in RepoSentinels : ~ErrorsIs(err, name)

---------------------------------------------------------------------------
(* Claims about the HTTP handlers, under HandlerSpec. *)

\* the request served last went to the handler and passed
\* DecodeAndValidate, and the handler called the service
Reached(handler) ==
    /\ served # <<>>
    /\ served[1].handler = handler
    /\ served[1].errs # <<>>

\* C28: for a well-formed login request LoginHandler writes one response:
\* one document in the body; when Login fails with an error other than
\* ErrUserNotFound and ErrUserUnauthorized the status is 500 and the body
\* is the error document alone, with no token document after it.
C28_OneResponse ==
    Reached("Login") =>
        /\ Len(served[1].resp.body) = 1
        /\ (/\ served[1].errs[1] # NoErr
            /\ ~Denied(served[1].errs)) =>
                /\ served[1].resp.code = 500
                /\ served[1].resp.body[1].key = "error"

\* C29: LoginHandler answers a login Login refused with ErrUserNotFound
\* and one it refused with ErrUserUnauthorized alike: status 401 and the
\* body {"error":"invalid credentials"}.  Two logins with the same email
\* and password, one before the email was registered and one after, get
\* the same response.
C29_DeniedAlike ==
    /\ \A i \in 1..Len(logins) :
         logins[i].resp =
            [code |-> 401,
             body |-> <<Doc("error", <<"invalid credentials">>)>>]
    /\ (/\ Len(logins) = 2
        /\ logins[1].email = logins[2].email
        /\ logins[1].password = logins[2].password) =>
            logins[1].resp = logins[2].resp

\* the same login refused twice: with ErrUserNotFound, and after the
\* email was registered with ErrUserUnauthorized
C29_Witness ==
    /\ Len(logins) = 2
    /\ logins[1].email = logins[2].email
    /\ logins[1].password = logins[2].password
    /\ ErrorsIs(logins[2].err, "ErrUserNotFound")
    /\ ErrorsIs(logins[1].err, "ErrUserUnauthorized")
    /\ logins[1].resp = logins[2].resp

\* C30: when UpdateHandler answers a request that carries a new username
\* and a new email with an error status, the stored username and the
\* stored email of the user are what they were before the request.
C30_UpdateAllOrNothing ==
    (/\ served # <<>>
     /\ served[1].handler = "Update"
     /\ served[1].req.json = "object"
     /\ served[1].req.username # <<>>
     /\ served[1].req.email # <<>>
     /\ served[1].resp.code >= 400) =>
        \A b \in served[1].before :
            \E a \in served[1].after :
                a.username = b.username /\ a.email = b.email

====
